---- MODULE Spec2Model ----
(***************************************************************************)
(* Verification model of the keyword crawler:                              *)
(*   - src/src/utils/Methods.py            text / URL normalisation        *)
(*   - src/src/engines/SearchEngineNews.py dedup index, providers, snapshot*)
(*   - src/src/engines/SearchEnginePaper.py paper store                    *)
(*   - src/src/state/StateManager.py       checkpoint file                 *)
(*   - src/src/app/main_app.py             keyword loop, resume            *)
(*                                                                         *)
(* Texts are TLA+ strings and are processed character by character, the   *)
(* way the Python code does.  The text universe is ASCII: the NFKD /       *)
(* combining-mark step of the normalisers is the identity on it.           *)
(***************************************************************************)
EXTENDS Integers, Sequences, FiniteSets, TLC

(***************************************************************************)
(* Character classes                                                       *)
(***************************************************************************)
UPPER == "ABCDEFGHIJKLMNOPQRSTUVWXYZ"
LOWER == "abcdefghijklmnopqrstuvwxyz"
DIGITS == "0123456789"

CharsOf(s) == {SubSeq(s, i, i) : i \in 1..Len(s)}

LowerSet == CharsOf(LOWER)
DigitSet == CharsOf(DIGITS)
AlnumSet == LowerSet \cup DigitSet

\* str.lower() on one character
LowerChar(c) ==
    IF \E i \in 1..Len(UPPER) : SubSeq(UPPER, i, i) = c
    THEN LET i == CHOOSE j \in 1..Len(UPPER) : SubSeq(UPPER, j, j) = c
         IN  SubSeq(LOWER, i, i)
    ELSE c

RECURSIVE MapLower(_)
MapLower(s) ==
    IF s = "" THEN ""
    ELSE LowerChar(SubSeq(s, 1, 1)) \o MapLower(SubSeq(s, 2, Len(s)))

\* keep only the characters of `keep'  (re.sub(r"[^...]+", "", s))
RECURSIVE KeepChars(_, _)
KeepChars(s, keep) ==
    IF s = "" THEN ""
    ELSE LET c == SubSeq(s, 1, 1)
         IN  (IF c \in keep THEN c ELSE "") \o KeepChars(SubSeq(s, 2, Len(s)), keep)

\* replace every character outside `keep' by a blank (re.sub(r"[^...]+", " ", s),
\* followed in the callers by the whitespace collapse below)
RECURSIVE BlankOthers(_, _)
BlankOthers(s, keep) ==
    IF s = "" THEN ""
    ELSE LET c == SubSeq(s, 1, 1)
         IN  (IF c \in keep THEN c ELSE " ") \o BlankOthers(SubSeq(s, 2, Len(s)), keep)

\* str.strip() for blanks
RECURSIVE LStrip(_)
LStrip(s) == IF s # "" /\ SubSeq(s, 1, 1) = " " THEN LStrip(SubSeq(s, 2, Len(s))) ELSE s
RECURSIVE RStrip(_)
RStrip(s) == IF s # "" /\ SubSeq(s, Len(s), Len(s)) = " " THEN RStrip(SubSeq(s, 1, Len(s) - 1)) ELSE s
Strip(s) == LStrip(RStrip(s))

\* re.sub(r"\s+", " ", s)
RECURSIVE CollapseBlanks(_)
CollapseBlanks(s) ==
    IF Len(s) < 2 THEN s
    ELSE IF SubSeq(s, 1, 1) = " " /\ SubSeq(s, 2, 2) = " "
         THEN CollapseBlanks(SubSeq(s, 2, Len(s)))
         ELSE SubSeq(s, 1, 1) \o CollapseBlanks(SubSeq(s, 2, Len(s)))

\* str.split(): the maximal blank-free runs, in order
RECURSIVE SplitAcc(_, _, _)
SplitAcc(s, cur, acc) ==
    IF s = "" THEN (IF cur = "" THEN acc ELSE Append(acc, cur))
    ELSE LET c == SubSeq(s, 1, 1)
             r == SubSeq(s, 2, Len(s))
         IN  IF c = " "
             THEN SplitAcc(r, "", IF cur = "" THEN acc ELSE Append(acc, cur))
             ELSE SplitAcc(r, cur \o c, acc)
Split(s) == SplitAcc(s, "", <<>>)

\* re.findall(r"[a-z0-9]+", s): the maximal alphanumeric runs, in order
Words(s) == Split(BlankOthers(s, AlnumSet))

\* sep.join(ws)
RECURSIVE Join(_, _)
Join(ws, sep) ==
    IF ws = <<>> THEN ""
    ELSE IF Len(ws) = 1 THEN ws[1]
    ELSE ws[1] \o sep \o Join(Tail(ws), sep)

StartsWith(s, p) == Len(p) <= Len(s) /\ SubSeq(s, 1, Len(p)) = p
EndsWith(s, p) == Len(p) <= Len(s) /\ SubSeq(s, Len(s) - Len(p) + 1, Len(s)) = p
Contains(s, p) == \E i \in 1..(Len(s) - Len(p) + 1) : SubSeq(s, i, i + Len(p) - 1) = p
Range(f) == {f[i] : i \in DOMAIN f}


(***************************************************************************)
(* Methods.py : title normalisation                                        *)
(***************************************************************************)
SepSet == {"-", "|", ":"}
STOP_EXT == {"the","a","an","of","and","for","to","in","on","with","by","vs","was","is","are",
             "la","el","los","las","de","del","y","para","en","con","por","un","una","al","lo"}

\* Methods._normalize_text_basic: lower-case, collapse white space, strip
normalize_text_basic(s) == Strip(CollapseBlanks(MapLower(s)))

\* index of the last separator character of t, 0 if there is none
LastSep(t) ==
    LET I == {i \in 1..Len(t) : SubSeq(t, i, i) \in SepSet}
    IN  IF I = {} THEN 0 ELSE CHOOSE i \in I : \A j \in I : j <= i

HasDigit(s) == \E i \in 1..Len(s) : SubSeq(s, i, i) \in DigitSet

\* Methods.normalize_title
normalize_title(title) ==
    LET \* re.sub(r"(...|\.{3})\s*$", "", t)
        dots(t0) == IF EndsWith(t0, "...") THEN SubSeq(t0, 1, Len(t0) - 3) ELSE t0
        \* branding tail: the pattern can only match at the last separator i,
        \* because the tail [^sep]{1,60}$ may not contain a separator
        cut(t1, i, tailRaw) ==
            IF /\ i # 0 /\ tailRaw # "" /\ Len(LStrip(tailRaw)) <= 60
               /\ Len(Split(tailRaw)) <= 4 /\ ~HasDigit(tailRaw)
            THEN RStrip(SubSeq(t1, 1, i - 1))
            ELSE t1
        brand(t1, i) == cut(t1, i, IF i = 0 THEN "" ELSE SubSeq(t1, i + 1, Len(t1)))
        tail(t1) == brand(t1, LastSep(t1))
        norm(t0) == KeepChars(Strip(CollapseBlanks(MapLower(tail(dots(t0))))),
                              AlnumSet \cup {" "})
        nonEmpty(t0) == IF t0 = "" THEN "" ELSE norm(t0)
    IN  nonEmpty(Strip(title))

\* Methods.normalize_title_soft; the abbreviation table ABBR rewrites the
\* word "nev" to "nevada"
normalize_title_soft(raw) ==
    LET ab(ws) == [i \in 1..Len(ws) |-> IF ws[i] = "nev" THEN "nevada" ELSE ws[i]]
    IN  Join(ab(Words(normalize_text_basic(raw))), " ")

COMPOUNDS(a, b) ==
    IF a = "cyber" /\ b = "attack" THEN "cyberattack"
    ELSE IF a = "ransom" /\ b = "ware" THEN "ransomware"
    ELSE IF a = "data" /\ b = "base" THEN "database"
    ELSE ""

RECURSIVE MergeCompounds(_)
MergeCompounds(toks) ==
    IF toks = <<>> THEN <<>>
    ELSE IF Len(toks) >= 2 /\ COMPOUNDS(toks[1], toks[2]) # ""
         THEN <<COMPOUNDS(toks[1], toks[2])>> \o MergeCompounds(SubSeq(toks, 3, Len(toks)))
         ELSE <<toks[1]>> \o MergeCompounds(Tail(toks))

\* re.sub(r"(ing|ed|es|s)$", "", w): the leftmost match is the longest suffix
Stem(w) ==
    IF EndsWith(w, "ing") THEN SubSeq(w, 1, Len(w) - 3)
    ELSE IF EndsWith(w, "ed") \/ EndsWith(w, "es") THEN SubSeq(w, 1, Len(w) - 2)
    ELSE IF EndsWith(w, "s") THEN SubSeq(w, 1, Len(w) - 1)
    ELSE w

\* Methods.tokens_strong
tokens_strong(raw) ==
    LET stems(out) == [i \in 1..Len(out) |-> Stem(out[i])]
    IN  stems(MergeCompounds(SelectSeq(Split(normalize_title_soft(raw)),
                                       LAMBDA w : Len(w) > 2 /\ w \notin STOP_EXT)))

\* code-point order on strings over [0-9a-z]
CharRank(c) == CHOOSE i \in 1..Len(DIGITS \o LOWER) : SubSeq(DIGITS \o LOWER, i, i) = c
RECURSIVE StrLess(_, _)
StrLess(a, b) ==
    IF b = "" THEN FALSE
    ELSE IF a = "" THEN TRUE
    ELSE LET ca == SubSeq(a, 1, 1)  cb == SubSeq(b, 1, 1)
         IN  IF ca = cb THEN StrLess(SubSeq(a, 2, Len(a)), SubSeq(b, 2, Len(b)))
             ELSE CharRank(ca) < CharRank(cb)

RECURSIVE Insert(_, _)
Insert(w, sorted) ==
    IF sorted = <<>> THEN <<w>>
    ELSE IF StrLess(sorted[1], w) THEN <<sorted[1]>> \o Insert(w, Tail(sorted))
    ELSE <<w>> \o sorted
RECURSIVE Sorted(_)
Sorted(ws) == IF ws = <<>> THEN <<>> ELSE Insert(ws[1], Sorted(Tail(ws)))

FirstK(ws, k) == SubSeq(ws, 1, IF Len(ws) < k THEN Len(ws) ELSE k)

\* Methods.bow_signature (k = 6)
bow_signature(raw) == Join(FirstK(Sorted(tokens_strong(raw)), 6), "|")

\* Methods.title_prefix_key
title_prefix_key(title, k) == Join(FirstK(Words(normalize_title(title)), k), "-")

\* Methods.jaccard, as the pair <<|a \cap b|, |a \cup b|>>; <<0, 1>> when a set is empty
jaccard(a, b) ==
    IF a = {} \/ b = {} THEN <<0, 1>>
    ELSE <<Cardinality(a \cap b), Cardinality(a \cup b)>>
\* j >= pct / 100
JacGe(j, pct) == 100 * j[1] >= pct * j[2]
\* exact comparison of two ratios
JacGt(j1, j2) == j1[1] * j2[2] > j2[1] * j1[2]

\* Methods.char_shingles (n = 3)
char_shingles(s) ==
    LET grams(t) == {SubSeq(t, i, i + 2) : i \in 1..(Len(t) - 2)}
    IN  grams(KeepChars(normalize_text_basic(s), AlnumSet))

\* the feature text that Methods.char_ngrams cuts into trigrams
ngram_text(s) == KeepChars(normalize_text_basic(s), AlnumSet \cup {" "})

\* Methods.prefix_title_equiv.  After the two prefix tests the short text is
\* a prefix of the compared part of the long one, so SequenceMatcher finds
\* exactly Len(a) matching characters and ratio() = 2*Len(a)/(Len(a)+Len(b)).
IsNumber(w) == w # "" /\ \A i \in 1..Len(w) : SubSeq(w, i, i) \in DigitSet
prefix_title_equiv(t1, t2) ==
    LET ratio(a, b) == 100 * 2 * Len(a) >= 90 * (Len(a) + Len(b))
        equiv(short, long, n) ==
            /\ SubSeq(short, 1, n - 1) = SubSeq(long, 1, n - 1)
            /\ StartsWith(long[n], short[n])
            /\ ratio(Join(short, " "), Join(FirstK(long, n + 1), " "))
            /\ {w \in Range(short) : IsNumber(w)} \subseteq {w \in Range(long) : IsNumber(w)}
        words(w1, w2) ==
            IF w1 = <<>> \/ w2 = <<>> \/ Len(w1) = 1 \/ Len(w2) = 1 THEN FALSE
            ELSE IF Len(w1) <= Len(w2) THEN equiv(w1, w2, Len(w1))
            ELSE equiv(w2, w1, Len(w2))
    IN  IF t1 = "" \/ t2 = "" THEN FALSE
        ELSE words(Words(normalize_text_basic(t1)), Words(normalize_text_basic(t2)))

(***************************************************************************)
(* Methods.py : URL normalisation.  URLs of the universe have the shape    *)
(* scheme://netloc/path?query#fragment, with no params part and with query *)
(* keys and values that urlencode leaves unchanged.                        *)
(***************************************************************************)
\* first position of pattern p in s, 0 if absent
IndexOf(s, p) ==
    LET I == {i \in 1..(Len(s) - Len(p) + 1) : SubSeq(s, i, i + Len(p) - 1) = p}
    IN  IF I = {} THEN 0 ELSE CHOOSE i \in I : \A j \in I : i <= j

\* re.sub(pat, rep, s) for a literal pattern
RECURSIVE ReplaceAll(_, _, _)
ReplaceAll(s, pat, rep) ==
    LET i == IndexOf(s, pat)
    IN  IF i = 0 THEN s
        ELSE SubSeq(s, 1, i - 1) \o rep \o ReplaceAll(SubSeq(s, i + Len(pat), Len(s)), pat, rep)

\* re.sub(r"/amp(/|$)", "/", u)
RECURSIVE StripAmpSuffix(_)
StripAmpSuffix(u) ==
    IF Len(u) < 4 THEN u
    ELSE IF SubSeq(u, 1, 4) = "/amp" /\ (Len(u) = 4 \/ SubSeq(u, 5, 5) = "/")
         THEN "/" \o StripAmpSuffix(SubSeq(u, IF Len(u) = 4 THEN 5 ELSE 6, Len(u)))
         ELSE SubSeq(u, 1, 1) \o StripAmpSuffix(SubSeq(u, 2, Len(u)))

\* re.sub(r"[?&]outputType=amp\b", "", u) on a lower-case URL
IsWordChar(c) == c \in AlnumSet \cup {"_"}
RECURSIVE StripOutputType(_)
StripOutputType(u) ==
    LET pat == "outputtype=amp"
        n   == Len(pat) + 1
    IN  IF Len(u) < n THEN u
        ELSE IF /\ SubSeq(u, 1, 1) \in {"?", "&"}
                /\ MapLower(SubSeq(u, 2, n)) = pat
                /\ (Len(u) = n \/ ~IsWordChar(SubSeq(u, n + 1, n + 1)))
             THEN StripOutputType(SubSeq(u, n + 1, Len(u)))
             ELSE SubSeq(u, 1, 1) \o StripOutputType(SubSeq(u, 2, Len(u)))

\* position of the first character of `stops' in s, Len(s)+1 if none
FirstOf(s, stops) ==
    LET I == {i \in 1..Len(s) : SubSeq(s, i, i) \in stops}
    IN  IF I = {} THEN Len(s) + 1 ELSE CHOOSE i \in I : \A j \in I : i <= j

\* urllib.parse.urlparse
urlparse(u) ==
    LET \* nofrag: what follows the netloc, without the fragment
        split3(scheme, netloc, nofrag, frag, q) ==
            [scheme |-> MapLower(scheme), netloc |-> netloc,
             path |-> SubSeq(nofrag, 1, q - 1),
             query |-> SubSeq(nofrag, q + 1, Len(nofrag)),
             fragment |-> frag]
        split2(scheme, netloc, tl, h) ==
            split3(scheme, netloc, SubSeq(tl, 1, h - 1), SubSeq(tl, h + 1, Len(tl)),
                   FirstOf(SubSeq(tl, 1, h - 1), {"?"}))
        split1(scheme, rest, e) ==
            split2(scheme, SubSeq(rest, 1, e - 1), SubSeq(rest, e, Len(rest)),
                   FirstOf(SubSeq(rest, e, Len(rest)), {"#"}))
        split0(k) ==
            IF k = 0 THEN split1("", u, 1)
            ELSE split1(SubSeq(u, 1, k - 1), SubSeq(u, k + 3, Len(u)),
                        FirstOf(SubSeq(u, k + 3, Len(u)), {"/", "?", "#"}))
    IN  split0(IndexOf(u, "://"))

\* re.sub(r"/{2,}", "/", path)
RECURSIVE CollapseSlashes(_)
CollapseSlashes(s) ==
    IF Len(s) < 2 THEN s
    ELSE IF SubSeq(s, 1, 1) = "/" /\ SubSeq(s, 2, 2) = "/"
         THEN CollapseSlashes(SubSeq(s, 2, Len(s)))
         ELSE SubSeq(s, 1, 1) \o CollapseSlashes(SubSeq(s, 2, Len(s)))
RECURSIVE RStripSlashes(_)
RStripSlashes(s) ==
    IF s # "" /\ SubSeq(s, Len(s), Len(s)) = "/" THEN RStripSlashes(SubSeq(s, 1, Len(s) - 1)) ELSE s

\* path = re.sub(r"/{2,}", "/", parts.path or "/"); path = re.sub(r"/+$", "", path) or "/"
NormPath(path) ==
    LET orSlash(p) == IF p = "" THEN "/" ELSE p
    IN  orSlash(RStripSlashes(CollapseSlashes(orSlash(path))))

\* s.split(ch)
RECURSIVE SplitOn(_, _)
SplitOn(s, ch) ==
    LET i == IndexOf(s, ch)
    IN  IF i = 0 THEN <<s>>
        ELSE <<SubSeq(s, 1, i - 1)>> \o SplitOn(SubSeq(s, i + 1, Len(s)), ch)

\* the key of one "key=value" piece
QsKey(piece) ==
    LET i == IndexOf(piece, "=") IN IF i = 0 THEN piece ELSE SubSeq(piece, 1, i - 1)

\* drop_keys = ^(utm_|fbclid|gclid|mc_|ref$|ref_src$|trk$|spm$|igshid$|si$), re.I
IsTrackingKey(key) ==
    LET k == MapLower(key)
    IN  \/ \E p \in {"utm_", "fbclid", "gclid", "mc_"} : StartsWith(k, p)
        \/ k \in {"ref", "ref_src", "trk", "spm", "igshid", "si"}

\* urlencode([(k, v) for (k, v) in parse_qsl(query, keep_blank_values=True) if not drop])
FilterQuery(query) ==
    LET full(kept) == [i \in 1..Len(kept) |->
                         IF IndexOf(kept[i], "=") = 0 THEN kept[i] \o "=" ELSE kept[i]]
    IN  Join(full(SelectSeq(SplitOn(query, "&"),
                            LAMBDA x : x # "" /\ ~IsTrackingKey(QsKey(x)))), "&")

\* Methods.normalize_url
normalize_url(url) ==
    LET build(parts, query) ==
            MapLower((IF parts.scheme = "" THEN "" ELSE parts.scheme \o "://")
                     \o parts.netloc \o NormPath(parts.path)
                     \o (IF query = "" THEN "" ELSE "?" \o query))
        rebuild(parts) == build(parts, FilterQuery(parts.query))
        \* "://m." and "://amp." removed, then "/amp" segments and outputType=amp
        clean(u) == rebuild(urlparse(StripOutputType(StripAmpSuffix(
                        ReplaceAll(ReplaceAll(u, "://m.", "://"), "://amp.", "://")))))
        nonEmpty(u) == IF u = "" THEN "" ELSE clean(u)
    IN  nonEmpty(Strip(url))

StripWww(host) == IF StartsWith(host, "www.") THEN SubSeq(host, 5, Len(host)) ELSE host

\* Methods.url_signature: host + path of the normalised URL
url_signature(url) ==
    LET sig(p) == StripWww(MapLower(p.netloc)) \o NormPath(p.path)
    IN  IF Strip(url) = "" THEN "" ELSE sig(urlparse(normalize_url(url)))

\* Methods._domain_of
domain_of(url_norm, source) ==
    IF url_norm # "" THEN StripWww(MapLower(urlparse(url_norm).netloc))
    ELSE LET i == IndexOf(source, " (")
         IN  MapLower(Strip(IF i = 0 THEN source ELSE SubSeq(source, 1, i - 1)))

\* Methods._title_key
title_key(title_norm, ymd, domain) == title_norm \o "|" \o Strip(ymd) \o "|" \o Strip(domain)

\* Methods._hash12: SHA-1 is taken to be collision free, the digest of s is
\* represented by s itself
hash12(s) == s

(***************************************************************************)
(* Methods.py : SimHash.  blake2b cannot be computed here, so simhash64 is *)
(* tabulated from the program for the texts of the universe, keyed by the  *)
(* text whose character 3-grams are hashed.  A 64 bit value is kept as its *)
(* four 16 bit bands, lowest band first.                                   *)
(***************************************************************************)
SIMHASH64 ==
    [t \in {"bmw plant halted after ransomware attack",
            "bmw plant halted after ransomware attack  reuters",
            "bmw plant halted after ransomware",
            "bmw plant halted after",
            "toyota supplier hit by data breach",
            "ransomware attack halted bmw plant",
            "bmw plant stopped after ransomware attack hit servers",
            "bmw plant was stopped after ransomware attack hit servers",
            "toyota supplier confirms data theft",
            "statement on the dealer portal outage",
            "not available"} |->
       CASE t = "bmw plant halted after ransomware attack"          -> <<48459, 64613, 62300, 34237>>
         [] t = "bmw plant halted after ransomware attack  reuters" -> <<40026, 65125, 45904, 34237>>
         [] t = "bmw plant halted after ransomware"                 -> <<48458, 42061, 47880, 34229>>
         [] t = "bmw plant halted after"                            -> <<48618, 42025, 64350, 34749>>
         [] t = "toyota supplier hit by data breach"                -> <<21610, 51100, 54200, 16189>>
         [] t = "ransomware attack halted bmw plant"                -> <<38170, 18020, 62364, 43003>>
         [] t = "bmw plant stopped after ransomware attack hit servers"
                                                                    -> <<48139, 37077, 54552, 33979>>
         [] t = "bmw plant was stopped after ransomware attack hit servers"
                                                                    -> <<48219, 39108, 54041, 38139>>
         [] t = "toyota supplier confirms data theft"               -> <<14447, 49109, 12924, 49023>>
         [] t = "statement on the dealer portal outage"             -> <<46053, 45240, 52486, 4219>>
         [] OTHER                                                   -> <<15124, 61838, 39199, 32735>>]

\* Methods.simhash64(Methods.char_ngrams(s, 3)); <<>> stands for the value 0
\* (with no 3-gram to hash every bit of the result is set)
simhash_title64(s) ==
    LET hash(t) == IF Len(t) < 3 THEN <<65535, 65535, 65535, 65535>> ELSE SIMHASH64[t]
    IN  hash(ngram_text(s))

RECURSIVE PopXor(_, _)
PopXor(a, b) ==
    IF a = 0 /\ b = 0 THEN 0
    ELSE (IF a % 2 = b % 2 THEN 0 ELSE 1) + PopXor(a \div 2, b \div 2)

\* Methods.hamming_dist64: number of bits set in a ^ b
hamming_dist64(a, b) ==
    PopXor(a[1], b[1]) + PopXor(a[2], b[2]) + PopXor(a[3], b[3]) + PopXor(a[4], b[4])

\* Methods.simhash_bands: the keys (band index, band value), band 0 lowest
simhash_bands(h) == [i \in 1..Len(h) |-> <<i - 1, h[i]>>]

(***************************************************************************)
(* Dates.  strptime is modelled for zero padded fields.                    *)
(***************************************************************************)
DigitVal(c) == CHOOSE d \in 0..9 : SubSeq(DIGITS, d + 1, d + 1) = c

RECURSIVE ToInt(_)
ToInt(s) == IF s = "" THEN 0
            ELSE 10 * ToInt(SubSeq(s, 1, Len(s) - 1)) + DigitVal(SubSeq(s, Len(s), Len(s)))

AllDigits(s) == \A i \in 1..Len(s) : SubSeq(s, i, i) \in DigitSet

DaysInMonth(y, m) ==
    IF m = 2 THEN (IF (y % 4 = 0 /\ y % 100 # 0) \/ y % 400 = 0 THEN 29 ELSE 28)
    ELSE IF m \in {4, 6, 9, 11} THEN 30 ELSE 31

\* is <<y, m, d>> written as text a date of the calendar
ValidYmd(y, m, d) ==
    /\ AllDigits(y) /\ AllDigits(m) /\ AllDigits(d)
    /\ ToInt(y) >= 1 /\ ToInt(m) \in 1..12
    /\ ToInt(d) \in 1..DaysInMonth(ToInt(y), ToInt(m))

IsHms(s) ==
    /\ Len(s) = 8 /\ SubSeq(s, 3, 3) = ":" /\ SubSeq(s, 6, 6) = ":"
    /\ AllDigits(SubSeq(s, 1, 2)) /\ AllDigits(SubSeq(s, 4, 5)) /\ AllDigits(SubSeq(s, 7, 8))
    /\ ToInt(SubSeq(s, 1, 2)) <= 23 /\ ToInt(SubSeq(s, 4, 5)) <= 59
    /\ ToInt(SubSeq(s, 7, 8)) <= 61

\* the formats of create_new_model that start with %Y-%m-%d; the result is
\* <<year, "DD-MM-YYYY">>, or <<0, "">> when no format parses raw_date
ParseRawDate(raw) ==
    LET y == SubSeq(raw, 1, 4)  m == SubSeq(raw, 6, 7)  d == SubSeq(raw, 9, 10)
        rest == SubSeq(raw, 11, Len(raw))
        shape == /\ Len(raw) >= 10
                 /\ SubSeq(raw, 5, 5) = "-" /\ SubSeq(raw, 8, 8) = "-"
                 /\ ValidYmd(y, m, d)
                 /\ \/ rest = ""
                    \/ Len(rest) = 10 /\ SubSeq(rest, 1, 1) = "T"
                       /\ IsHms(SubSeq(rest, 2, 9)) /\ SubSeq(rest, 10, 10) = "Z"
                    \/ Len(rest) = 9 /\ SubSeq(rest, 1, 1) = " " /\ IsHms(SubSeq(rest, 2, 9))
    IN  IF shape THEN <<ToInt(y), d \o "-" \o m \o "-" \o y>> ELSE <<0, "">>

\* NewsSearchEngine._ymd_from_ddmmyyyy: the day number of a "DD-MM-YYYY"
\* text (days since 0000-03-01), or -1 for None
ymd_from_ddmmyyyy(s) ==
    IF ~(/\ Len(s) = 10 /\ SubSeq(s, 3, 3) = "-" /\ SubSeq(s, 6, 6) = "-"
         /\ ValidYmd(SubSeq(s, 7, 10), SubSeq(s, 4, 5), SubSeq(s, 1, 2)))
    THEN -1
    ELSE LET y0 == ToInt(SubSeq(s, 7, 10))  m0 == ToInt(SubSeq(s, 4, 5))
             d  == ToInt(SubSeq(s, 1, 2))
             y  == IF m0 <= 2 THEN y0 - 1 ELSE y0
             m  == IF m0 <= 2 THEN m0 + 9 ELSE m0 - 3
         IN  365 * y + (y \div 4) - (y \div 100) + (y \div 400) + ((153 * m + 2) \div 5) + d - 1

\* strftime("%Y-%m-%d") of a "DD-MM-YYYY" text, "" when it does not parse
YmdText(date) ==
    IF ymd_from_ddmmyyyy(date) < 0 THEN ""
    ELSE SubSeq(date, 7, 10) \o "-" \o SubSeq(date, 4, 5) \o "-" \o SubSeq(date, 1, 2)

\* NewsSearchEngine._dates_close
dates_close(d1, d2, days) ==
    IF d1 < 0 \/ d2 < 0 THEN TRUE
    ELSE (IF d1 >= d2 THEN d1 - d2 ELSE d2 - d1) <= days

(***************************************************************************)
(* SearchEngineNews.py : the dedup engine.  A Python dict is a function on *)
(* its key set (<<>> when empty); raw_items keeps its insertion order as a *)
(* sequence of records, each stored under the key it carries in ID.        *)
(***************************************************************************)
simhash_hamming_threshold == 8
cross_days == 3
title_prefix_k == 4
summary_hamming_threshold == 12
summary_jaccard_min == 70

\* d[k] = v
Put(d, k, v) == [x \in (DOMAIN d) \cup {k} |-> IF x = k THEN v ELSE d[x]]
\* d.setdefault(k, v), done only when `on' holds
PutNew(d, k, v, on) == IF on /\ k \notin DOMAIN d THEN Put(d, k, v) ELSE d
\* d[k].append(v) on a defaultdict(list), unless v is already in d[k]
AppendNew(d, k, v, on) ==
    IF ~on THEN d
    ELSE IF k \notin DOMAIN d THEN Put(d, k, <<v>>)
    ELSE IF v \in Range(d[k]) THEN d
    ELSE Put(d, k, Append(d[k], v))
\* AppendNew for each key of the sequence ks
RECURSIVE AppendAll(_, _, _)
AppendAll(d, ks, v) ==
    IF ks = <<>> THEN d ELSE AppendAll(AppendNew(d, Head(ks), v, TRUE), Tail(ks), v)

\* NewsSearchEngine.__init__: the state of a fresh engine
NewEngine ==
    [raw_items |-> <<>>, final_results |-> <<>>, ia_analyzed_ids |-> {},
     gnews_ids |-> {}, newsapi_ids |-> {}, serpapi_ids |-> {}, gdelt_ids |-> {},
     newsdata_ids |-> {}, duplicate_count |-> 0,
     idx_by_url |-> <<>>, idx_by_title |-> <<>>, idx_by_title_sha |-> <<>>,
     idx_by_simhash_band |-> <<>>, idx_by_url_sig |-> <<>>,
     idx_by_title_prefix |-> <<>>, idx_by_bow_sig |-> <<>>]

\* raw_items.get(mid): position of the record in raw_items, 0 when absent
PosOf(raw, mid) ==
    LET I == {i \in 1..Len(raw) : raw[i].ID = mid}
    IN  IF I = {} THEN 0 ELSE CHOOSE i \in I : TRUE

\* NewsSearchEngine.create_new_model (Year 0 stands for None)
create_new_model(api_source, title, abstract, raw_date, url, name_source) ==
    LET model(norm_title, dt) ==
            [ID |-> IF norm_title # "" THEN norm_title ELSE normalize_url(url),
             Source |-> <<name_source \o " (" \o api_source \o ")">>,
             Title |-> title, Summary |-> abstract, Year |-> dt[1], Date |-> dt[2],
             URL |-> url, NeedsEnrichment |-> (abstract = ""),
             simhash64 |-> <<>>, sum_simhash64 |-> <<>>]
    IN  model(normalize_title(title), ParseRawDate(raw_date))

\* hashlib.sha1(...).hexdigest(), taken to be collision free
sha1hex(s) == "sha1:" \o s

\* NewsSearchEngine._summary_tokens
summary_tokens(s) == {w \in Range(Words(normalize_text_basic(s))) : Len(w) > 3}

\* add_or_update_result, lines 1344-1370: the keys computed from new_data,
\* with the day number of its date and the SimHash of its summary
Keys(new_data) ==
    LET keys(title, url, date, summ, norm_title, norm_url, title_sim) ==
            [title |-> title, url |-> url, date |-> date, summ |-> summ,
             norm_title |-> norm_title, norm_url |-> norm_url,
             url_sig |-> IF url # "" THEN url_signature(url) ELSE "",
             t_key |-> IF norm_title # ""
                       THEN title_key(norm_title, YmdText(date),
                                      domain_of(norm_url, new_data.Source[1]))
                       ELSE "",
             title_sha |-> IF norm_title # "" THEN sha1hex(norm_title) ELSE "",
             title_sim |-> title_sim,
             band_keys |-> simhash_bands(title_sim),
             prefix_key |-> IF title # "" THEN title_prefix_key(title, title_prefix_k) ELSE "",
             bow_sig |-> IF title # "" THEN bow_signature(title) ELSE "",
             new_d |-> ymd_from_ddmmyyyy(date),
             sum_sim |-> simhash_title64(summ)]
        norms(title, url, date, summ) ==
            keys(title, url, date, summ, normalize_title(title), normalize_url(url),
                 IF title # "" THEN simhash_title64(title) ELSE <<>>)
    IN  norms(Strip(new_data.Title), Strip(new_data.URL), Strip(new_data.Date),
              Strip(new_data.Summary))

(***************************************************************************)
(* The articles the providers return in this model, as the fields a        *)
(* provider passes to create_new_model: api_source, title, abstract,       *)
(* raw_date, url, name_source.  The functions of the texts are evaluated   *)
(* once, in the tables below.                                              *)
(***************************************************************************)
Articles ==
    << <<"GNews", "BMW plant halted after ransomware attack",
         "BMW plant stopped after ransomware attack hit servers",
         "2024-05-01T08:00:00Z", "https://a.com/x", "Reuters">>,
       <<"NewsAPI", "BMW plant halted after ransomware attack - Reuters", "",
         "2024-05-02T09:30:00Z", "https://b.com/y", "BBC">>,
       <<"SerpAPI.GoogleNews", "Toyota supplier hit by data breach",
         "Toyota supplier confirms data theft",
         "2024-05-01", "https://a.com/x?utm_source=t", "Reuters">>,
       <<"GDELT", "BMW plant halted after ransomware...", "",
         "", "https://www.c.com/z/amp", "c.com">>,
       <<"NewsData", "Ransomware attack halted BMW plant",
         "BMW plant was stopped after ransomware attack hit servers",
         "2024-05-03 10:00:00", "https://d.com/w", "CNN">>,
       <<"GNews", "Toyota supplier hit by data breach", "Not available",
         "2024-06-10T08:00:00Z", "https://c.com/t?id=7", "CNN">>,
       <<"NewsAPI", "", "Statement on the dealer portal outage",
         "2024-05-05T00:00:00Z", "https://e.com/1", "AP">>,
       <<"GNews", "", "", "2024-07-01T08:00:00Z", "https://f.com/2", "AP">>,
       <<"NewsAPI", "BMW plant halted after...", "",
         "2024-05-02T07:00:00Z", "https://g.com/9", "Heise">> >>

\* the item create_new_model builds for each article
NewItems ==
    [i \in DOMAIN Articles |->
       create_new_model(Articles[i][1], Articles[i][2], Articles[i][3],
                        Articles[i][4], Articles[i][5], Articles[i][6])]
KeysOf == [nd \in Range(NewItems) |-> Keys(nd)]
Titles == {NewItems[i].Title : i \in DOMAIN NewItems} \cup {""}
Summaries == {NewItems[i].Summary : i \in DOMAIN NewItems} \cup {""}
DayOf == [d \in {NewItems[i].Date : i \in DOMAIN NewItems} \cup {""} |-> ymd_from_ddmmyyyy(d)]
\* lines 1419-1427: the similarity measures of a new title and a stored one
TitleMetrics ==
    [p \in Titles \X Titles |->
       [ng_j |-> jaccard(Range(tokens_strong(p[1])), Range(tokens_strong(p[2]))),
        sh_j |-> jaccard(char_shingles(p[1]), char_shingles(p[2])),
        trunc_ok |-> prefix_title_equiv(p[1], p[2]),
        prefix_match |->
            LET a == IF p[1] # "" THEN title_prefix_key(p[1], title_prefix_k) ELSE ""
                b == IF p[2] # "" THEN title_prefix_key(p[2], title_prefix_k) ELSE ""
            IN  a # "" /\ b # "" /\ a = b]]
\* of a summary text: its SimHash, its tokens and its stripped lower case
SummaryInfo ==
    [t \in Summaries |->
       [sim |-> simhash_title64(Strip(t)), tok |-> summary_tokens(Strip(t)),
        text |-> Strip(t), low |-> MapLower(Strip(t))]]

\* add_or_update_result, step 3: the candidates of the band, prefix and
\* bag-of-words indexes that pass the date window and the acceptance rule,
\* each with its Hamming distance and the two Jaccard ratios of its score
Step3Accepted(e, k) ==
    LET get(d, key) == IF key \in DOMAIN d THEN Range(d[key]) ELSE {}
        score(mid, hd, m) ==
            [mid |-> mid, hd |-> hd, ng |-> m.ng_j, sh |-> m.sh_j, pm |-> m.prefix_match,
             accept |->
               \/ hd <= simhash_hamming_threshold
                  /\ (m.trunc_ok \/ JacGe(m.ng_j, 72) \/ JacGe(m.sh_j, 86))
               \/ JacGe(m.ng_j, 78) /\ JacGe(m.sh_j, 84)
               \/ m.prefix_match /\ (m.trunc_ok \/ JacGe(m.ng_j, 70))]
        eval(ex) ==
            score(ex.ID,
                  hamming_dist64(k.title_sim, IF ex.simhash64 # <<>> THEN ex.simhash64
                                              ELSE simhash_title64(ex.Title)),
                  TitleMetrics[<<k.title, ex.Title>>])
        \* the stored records of the candidate ids, inside the date window
        inWindow(cand_ids) ==
            {ex \in Range(e.raw_items) :
                ex.ID \in cand_ids /\ dates_close(k.new_d, DayOf[ex.Date], cross_days)}
        accepted(cands) == {c \in {eval(ex) : ex \in cands} : c.accept}
    IN  accepted(inWindow(
            UNION {get(e.idx_by_simhash_band, bk) : bk \in Range(k.band_keys)}
            \cup (IF k.prefix_key # "" THEN get(e.idx_by_title_prefix, k.prefix_key) ELSE {})
            \cup (IF k.bow_sig # "" THEN get(e.idx_by_bow_sig, k.bow_sig) ELSE {})))

\* the candidates that can end as `best': smallest hd, then largest score
\* (1 - hd/64) + 0.7 ng_j + 0.6 sh_j + 0.05 [prefix_match]; cand_ids is a
\* Python set, so among equals the first in its iteration order wins
Step3Best(e, k) ==
    LET num(c) == 14 * c.ng[1] * c.sh[2] + 12 * c.sh[1] * c.ng[2]
                  + (IF c.pm THEN 1 ELSE 0) * c.ng[2] * c.sh[2]
        den(c) == c.ng[2] * c.sh[2]
        better(a, b) == a.hd < b.hd \/ (a.hd = b.hd /\ num(a) * den(b) > num(b) * den(a))
        best(acc) == {c.mid : c \in {a \in acc : \A b \in acc : ~better(b, a)}}
    IN  best(Step3Accepted(e, k))

\* add_or_update_result, step 3bis: the summary fallback over raw_items in
\* insertion order; "" when no record passes
Step3bis(e, k) ==
    LET \* of the record at position i: Hamming distance and Jaccard ratio of
        \* its summary to the new one, and whether it passes the thresholds
        row(i, ex, info, new_tok) ==
            [i |-> i,
             hd_s |-> hamming_dist64(k.sum_sim, IF ex.sum_simhash64 # <<>>
                                                THEN ex.sum_simhash64 ELSE info.sim),
             sj |-> jaccard(new_tok, info.tok),
             ok |-> dates_close(k.new_d, DayOf[ex.Date], cross_days) /\ info.text # ""]
        rows(S) == {row(i, e.raw_items[i], S[e.raw_items[i].Summary], S[k.summ].tok) :
                      i \in 1..Len(e.raw_items)}
        passing(rs) == {r \in rs : /\ r.ok
                                   /\ r.hd_s <= summary_hamming_threshold
                                   /\ JacGe(r.sj, summary_jaccard_min)}
        top(ok) == {r.i : r \in {a \in ok : \A b \in ok :
                      ~(b.hd_s < a.hd_s \/ (b.hd_s = a.hd_s /\ JacGt(b.sj, a.sj)))}}
        first(is) == IF is = {} THEN ""
                     ELSE e.raw_items[CHOOSE i \in is : \A j \in is : i <= j].ID
    IN  first(top(passing(rows(SummaryInfo))))

\* add_or_update_result, lines 1372-1493: the master ids the lookup can end
\* with ("" for None); more than one only when step 3 has equal candidates
match(e, k) ==
    LET step4 == IF k.t_key # "" /\ k.t_key \in DOMAIN e.idx_by_title
                 THEN {e.idx_by_title[k.t_key]}
                 ELSE {""}
        step3bis(mid) == IF k.summ # "" /\ mid # "" THEN {mid} ELSE step4
        step3(best) == IF k.title_sim # <<>> /\ best # {} THEN best
                       ELSE step3bis(Step3bis(e, k))
    IN  IF k.norm_url # "" /\ k.norm_url \in DOMAIN e.idx_by_url
        THEN {e.idx_by_url[k.norm_url]}
        ELSE IF k.url_sig # "" /\ k.url_sig \in DOMAIN e.idx_by_url_sig
        THEN {e.idx_by_url_sig[k.url_sig]}
        ELSE IF k.title_sha # "" /\ k.title_sha \in DOMAIN e.idx_by_title_sha
        THEN {e.idx_by_title_sha[k.title_sha]}
        ELSE step3(Step3Best(e, k))

\* is a summary text one of the placeholders for a missing abstract
PlaceholderPrev(prev) ==
    prev = "" \/ prev = "no abstract" \/ Contains(prev, "not available") \/ Contains(prev, "no disponible")
PlaceholderNew(new) ==
    new = "" \/ StartsWith(new, "no abstract") \/ Contains(new, "not available")
    \/ Contains(new, "no disponible")

\* a merge that takes the Sources of the new observation instead of adding them
MergeFieldsReplacingSources(existing, new_data) ==
    [existing EXCEPT !.Source = new_data.Source]

\* a merge that takes every non-empty incoming Summary
MergeFieldsTakingSummary(existing, new_data) ==
    [existing EXCEPT !.Summary = IF new_data.Summary # "" THEN new_data.Summary ELSE @]

\* add_or_update_result, lines 1538-1558: new_data merged into `existing'
MergeFields(existing, new_data) ==
    LET RECURSIVE addSources(_, _)
        addSources(have, more) ==
            IF more = <<>> THEN have
            ELSE addSources(IF Head(more) \in Range(have) THEN have ELSE Append(have, Head(more)),
                            Tail(more))
        fill(old, v, empty) == IF v # empty /\ old = empty THEN v ELSE old
        merge(takeSummary, new_sim) ==
            [existing EXCEPT
               !.Source  = addSources(@, new_data.Source),
               !.Title   = fill(@, new_data.Title, ""),
               !.Summary = IF takeSummary THEN new_data.Summary ELSE @,
               !.sum_simhash64 = IF takeSummary THEN new_sim ELSE @,
               !.Year    = fill(@, new_data.Year, 0),
               !.Date    = fill(@, new_data.Date, ""),
               !.URL     = fill(@, new_data.URL, ""),
               !.NeedsEnrichment = fill(@, new_data.NeedsEnrichment, FALSE)]
        summaries(prev, new) ==
            merge(/\ new_data.Summary # ""
                  /\ PlaceholderPrev(prev.low)
                  /\ ~PlaceholderNew(new.low),
                  new.sim)
        lookup(S) == summaries(S[existing.Summary], S[new_data.Summary])
    IN  lookup(SummaryInfo)

\* NewsSearchEngine.add_or_update_result, with master_id the outcome of the
\* lookup: a new record when it is "", a merge otherwise
add_or_update_result(e, new_data, master_id) ==
  LET store(k) ==
    LET has_sim == k.title_sim # <<>>
    IN  IF master_id = "" \/ PosOf(e.raw_items, master_id) = 0
        THEN
          LET fresh == master_id = ""
              id  == IF ~fresh THEN master_id
                     ELSE IF k.norm_url # "" THEN k.norm_url
                     ELSE "t:" \o hash12(IF k.t_key # "" THEN k.t_key
                                         ELSE IF k.norm_title # "" THEN k.norm_title ELSE k.url)
              rec == [new_data EXCEPT
                        !.ID = id,
                        !.simhash64 = IF fresh /\ has_sim THEN k.title_sim ELSE @,
                        !.sum_simhash64 = IF fresh /\ k.summ # "" THEN k.sum_sim ELSE @]
              pos == PosOf(e.raw_items, id)
          IN  [e EXCEPT
                 !.raw_items = IF pos = 0 THEN Append(@, rec) ELSE [@ EXCEPT ![pos] = rec],
                 !.idx_by_url = IF k.norm_url # "" THEN Put(@, k.norm_url, id) ELSE @,
                 !.idx_by_url_sig = IF fresh /\ k.url_sig # "" THEN Put(@, k.url_sig, id) ELSE @,
                 !.idx_by_title = IF k.t_key # "" THEN Put(@, k.t_key, id) ELSE @,
                 !.idx_by_title_sha = IF fresh /\ k.title_sha # "" THEN Put(@, k.title_sha, id) ELSE @,
                 !.idx_by_simhash_band =
                     IF fresh /\ has_sim
                     THEN [bk \in (DOMAIN @) \cup Range(k.band_keys) |->
                             IF bk \in Range(k.band_keys)
                             THEN (IF bk \in DOMAIN @ THEN @[bk] ELSE <<>>) \o <<id>>
                             ELSE @[bk]]
                     ELSE @,
                 !.idx_by_title_prefix =
                     IF fresh /\ k.prefix_key # ""
                     THEN Put(@, k.prefix_key,
                              (IF k.prefix_key \in DOMAIN @ THEN @[k.prefix_key] ELSE <<>>) \o <<id>>)
                     ELSE @,
                 !.idx_by_bow_sig =
                     IF k.bow_sig # ""
                     THEN Put(@, k.bow_sig,
                              (IF k.bow_sig \in DOMAIN @ THEN @[k.bow_sig] ELSE <<>>) \o <<id>>)
                     ELSE @]
        ELSE
          LET pos    == PosOf(e.raw_items, master_id)
              merged == MergeFields(e.raw_items[pos], new_data)
              rec == [merged EXCEPT
                        !.simhash64 = IF has_sim /\ @ = <<>> THEN k.title_sim ELSE @,
                        !.sum_simhash64 = IF k.summ # "" /\ @ = <<>> THEN k.sum_sim ELSE @]
          IN  [e EXCEPT
                 !.raw_items[pos] = rec,
                 !.idx_by_url = PutNew(@, k.norm_url, master_id, k.norm_url # ""),
                 !.idx_by_url_sig = PutNew(@, k.url_sig, master_id, k.url_sig # ""),
                 !.idx_by_title = PutNew(@, k.t_key, master_id, k.t_key # ""),
                 !.idx_by_title_sha = PutNew(@, k.title_sha, master_id, k.title_sha # ""),
                 !.idx_by_simhash_band = AppendAll(@, k.band_keys, master_id),
                 !.idx_by_title_prefix = AppendNew(@, k.prefix_key, master_id, k.prefix_key # ""),
                 !.idx_by_bow_sig = AppendNew(@, k.bow_sig, master_id, k.bow_sig # ""),
                 !.duplicate_count = @ + 1]
  IN  store(KeysOf[new_data])

\* NewsSearchEngine.get_state_snapshot
get_state_snapshot(e) ==
    [ia_analyzed_ids |-> e.ia_analyzed_ids, final_results |-> e.final_results,
     raw_items |-> e.raw_items, gnews_ids |-> e.gnews_ids, newsapi_ids |-> e.newsapi_ids,
     serpapi_ids |-> e.serpapi_ids, gdelt_ids |-> e.gdelt_ids, newsdata_ids |-> e.newsdata_ids,
     duplicate_count |-> e.duplicate_count, idx_by_url |-> e.idx_by_url,
     idx_by_title |-> e.idx_by_title]

\* a restore that brings the indexes back and leaves the store empty
load_state_snapshot_without_raw_items(e, snap) ==
    [e EXCEPT !.ia_analyzed_ids = snap.ia_analyzed_ids, !.final_results = snap.final_results,
              !.gnews_ids = snap.gnews_ids,
              !.newsapi_ids = snap.newsapi_ids, !.serpapi_ids = snap.serpapi_ids,
              !.gdelt_ids = snap.gdelt_ids, !.newsdata_ids = snap.newsdata_ids,
              !.duplicate_count = snap.duplicate_count, !.idx_by_url = snap.idx_by_url,
              !.idx_by_title = snap.idx_by_title]

\* a restore that forgets the exact-URL index
load_state_snapshot_without_idx_by_url(e, snap) ==
    [e EXCEPT !.ia_analyzed_ids = snap.ia_analyzed_ids, !.final_results = snap.final_results,
              !.raw_items = snap.raw_items, !.gnews_ids = snap.gnews_ids,
              !.newsapi_ids = snap.newsapi_ids, !.serpapi_ids = snap.serpapi_ids,
              !.gdelt_ids = snap.gdelt_ids, !.newsdata_ids = snap.newsdata_ids,
              !.duplicate_count = snap.duplicate_count, !.idx_by_title = snap.idx_by_title]

\* NewsSearchEngine.load_state_snapshot into the engine e
load_state_snapshot(e, snap) ==
    [e EXCEPT !.ia_analyzed_ids = snap.ia_analyzed_ids, !.final_results = snap.final_results,
              !.raw_items = snap.raw_items, !.gnews_ids = snap.gnews_ids,
              !.newsapi_ids = snap.newsapi_ids, !.serpapi_ids = snap.serpapi_ids,
              !.gdelt_ids = snap.gdelt_ids, !.newsdata_ids = snap.newsdata_ids,
              !.duplicate_count = snap.duplicate_count, !.idx_by_url = snap.idx_by_url,
              !.idx_by_title = snap.idx_by_title]

\* NewsSearchEngine._maybe_reindex_to_canonical
maybe_reindex_to_canonical(e, master_id, canonical_url) ==
    LET reindex(canon_norm, pos) ==
            IF canon_norm = "" \/ pos = 0 THEN e
            ELSE IF /\ e.raw_items[pos].URL # ""
                    /\ normalize_url(e.raw_items[pos].URL) = canon_norm
            THEN e
            ELSE [e EXCEPT !.raw_items[pos].URL = canonical_url,
                           !.idx_by_url = Put(@, canon_norm, master_id)]
    IN  reindex(normalize_url(canonical_url), PosOf(e.raw_items, master_id))

(***************************************************************************)
(* SearchEnginePaper.py : the paper engine's store, a dict from the        *)
(* normalised DOI or the normalised title to the record.                   *)
(***************************************************************************)
\* the papers of this model, as create_paper_model builds them
Papers ==
    << [DOI |-> "10.1000/J.X.1", Source |-> <<"OpenAlex">>, Title |-> "Attacks on CAN bus",
        Summary |-> "No abstract available", Year |-> 2021],
       [DOI |-> "", Source |-> <<"Semantic Scholar">>, Title |-> "Attacks on CAN Bus.",
        Summary |-> "We survey attacks", Year |-> 0],
       [DOI |-> " 10.1000/j.x.1", Source |-> <<"Semantic Scholar">>, Title |-> "CAN bus attacks",
        Summary |-> "", Year |-> 2021],
       [DOI |-> "", Source |-> <<"OpenAlex">>, Title |-> "Attacks on CAN bus",
        Summary |-> "", Year |-> 2021],
       \* two records the providers returned without a title and without a DOI
       [DOI |-> "", Source |-> <<"OpenAlex">>, Title |-> "",
        Summary |-> "Fuzzing of diagnostic services", Year |-> 2022],
       [DOI |-> "", Source |-> <<"Semantic Scholar">>, Title |-> "",
        Summary |-> "", Year |-> 2020] >>

\* Methods.normalize_doi
normalize_doi(doi) == Strip(MapLower(doi))

\* the keys add_or_update_result computes from a paper
PaperKeys == [i \in DOMAIN Papers |->
                [norm_title |-> normalize_title(Papers[i].Title),
                 norm_doi |-> normalize_doi(Papers[i].DOI),
                 low |-> MapLower(Strip(Papers[i].Summary))]]

\* PaperSearchEngine.add_or_update_result for the paper Papers[i]
paper_add_or_update_result(raw, i) ==
  LET store(new_data, pk) ==
    LET norm_title == pk.norm_title
        norm_doi   == pk.norm_doi
        move == ~(norm_doi # "" /\ norm_doi \in DOMAIN raw)
                /\ norm_title \in DOMAIN raw /\ norm_doi # ""
        \* raw_items[norm_doi] = raw_items.pop(norm_title)
        raw1 == IF move
                THEN [x \in ((DOMAIN raw) \ {norm_title}) \cup {norm_doi} |->
                        IF x = norm_doi THEN raw[norm_title] ELSE raw[x]]
                ELSE raw
        key == IF norm_doi # "" /\ norm_doi \in DOMAIN raw THEN norm_doi
               ELSE IF norm_title \in DOMAIN raw THEN (IF norm_doi # "" THEN norm_doi ELSE norm_title)
               ELSE IF norm_doi # "" THEN norm_doi ELSE norm_title
    IN  IF key \in DOMAIN raw1
        THEN LET existing == raw1[key]
                 prev == MapLower(Strip(existing.Summary))
                 new  == pk.low
                 take == /\ new_data.Summary # ""
                         /\ (prev = "" \/ StartsWith(prev, "no abstract")
                             \/ Contains(prev, "not available") \/ Contains(prev, "no disponible"))
                         /\ ~PlaceholderNew(new)
             IN  Put(raw1, key,
                     [existing EXCEPT
                        !.Source = @ \o SelectSeq(new_data.Source, LAMBDA x : x \notin Range(existing.Source)),
                        !.Summary = IF take THEN new_data.Summary ELSE @,
                        !.DOI = IF @ = "" /\ new_data.DOI # "" THEN new_data.DOI ELSE @,
                        !.Title = IF @ = "" /\ new_data.Title # "" THEN new_data.Title ELSE @,
                        !.Year = IF @ = 0 /\ new_data.Year # 0 THEN new_data.Year ELSE @])
        ELSE Put(raw1, key, new_data)
  IN  store(Papers[i], PaperKeys[i])

(***************************************************************************)
(* state/StateManager.py : the checkpoint file of a run, a JSON object.    *)
(* A checkpoint is a function from its keys; <<>> is {} and [].  The keys  *)
(* params, cursors, filter_stats and last_saved_at are left out.           *)
(***************************************************************************)
SCHEMA_VERSION == 3

\* Python's None, different from every string, list and dict of the model
None == [None |-> TRUE]

\* d.get(key, default)
Get(d, key, default) == IF key \in DOMAIN d THEN d[key] ELSE default

\* StateManager.init_state
init_state(category, keywords) ==
    [version |-> SCHEMA_VERSION, category |-> category, status |-> "RUNNING",
     remaining_keywords |-> keywords, current_keyword |-> None,
     analiced_ids |-> {}, results |-> <<>>, engine_state |-> None,
     progress |-> [total_keywords |-> Len(keywords), processed_keywords |-> 0],
     last_error |-> None]

\* StateManager.save_state: a whole new state, whatever the file held
save_state(category, remaining_keywords, results, engine_state, analiced_ids, extra) ==
    [version |-> SCHEMA_VERSION, category |-> category,
     status |-> Get(extra, "status", "RUNNING"),
     remaining_keywords |-> remaining_keywords,
     current_keyword |-> Get(extra, "current_keyword", None),
     analiced_ids |-> analiced_ids, results |-> results, engine_state |-> engine_state,
     progress |-> Get(extra, "progress",
                      [total_keywords |-> Len(remaining_keywords),
                       processed_keywords |-> Get(extra, "processed_keywords", 0)]),
     last_error |-> Get(extra, "last_error", None)]

\* a patch that writes its own keys only and drops the keys of the file
patch_state_replacing_file(state, patch) == patch

\* StateManager.patch_state: the state read from the file ({} when there is
\* none), updated with the keys of the patch
patch_state(state, patch) == patch @@ state

\* StateManager.mark_error
mark_error(state, extra) == patch_state(state, [status |-> "ERROR"] @@ extra)

\* StateManager.mark_completed
mark_completed(state, extra) ==
    patch_state(state, [status |-> "COMPLETED", last_error |-> None] @@ extra)

(***************************************************************************)
(* utils/StateManager.py : the state file of the command line program      *)
(***************************************************************************)
legacy_save_state(remaining_keywords, analiced_ids, results) ==
    [remaining_keywords |-> remaining_keywords, analiced_ids |-> analiced_ids,
     results |-> results]

(***************************************************************************)
(* state/StateManager.py at the level of the files.  A JSON object is a    *)
(* dict that keeps the order of its keys: [order, at], the keys in the     *)
(* order json.dump writes them and the value at each key.  A file is       *)
(* [ok, json]: ok is FALSE for a text json.load does not parse.  `crash'   *)
(* is the point of a write at which the process is killed, "none" when it  *)
(* is not.                                                                 *)
(***************************************************************************)
\* dict.update with the (key, value) pairs in their order: a key the dict
\* has keeps its place, a new key goes last
RECURSIVE Update(_, _)
Update(d, pairs) ==
    IF pairs = <<>> THEN d
    ELSE Update([order |-> IF Head(pairs)[1] \in DOMAIN d.at THEN d.order
                           ELSE Append(d.order, Head(pairs)[1]),
                 at |-> Put(d.at, Head(pairs)[1], Head(pairs)[2])],
                Tail(pairs))

\* StateManager.bind_state_basename without a seed: the dict
\* _BOUND_BASENAME_BY_CATEGORY after it, with _safe_basename of the name
\* under the lower-cased category; ts is _now_ts()
bind_state_basename(bound, category, basename_without_ext, ts) ==
    LET RECURSIVE StripDashes(_)
        StripDashes(b) ==
            IF b # "" /\ SubSeq(b, 1, 1) = "-" THEN StripDashes(SubSeq(b, 2, Len(b)))
            ELSE IF b # "" /\ SubSeq(b, Len(b), Len(b)) = "-"
            THEN StripDashes(SubSeq(b, 1, Len(b) - 1))
            ELSE b
        allowed == CharsOf(UPPER) \cup AlnumSet \cup {".", "_", "-"}
        safe(base) == IF base = "" THEN "state_" \o ts ELSE base
    IN  Put(bound, MapLower(category),
            safe(StripDashes(ReplaceAll(
                CollapseBlanks(BlankOthers(Strip(basename_without_ext), allowed)),
                " ", "-"))))

\* a _resolve_state_path that binds the default name whatever is bound
resolve_state_path_ignoring_binding(bound, category, ts) ==
    LET cat == MapLower(category)
        at(b) == [bound |-> b, path |-> "state/" \o cat \o "/" \o b[cat] \o ".json"]
    IN  at(bind_state_basename(bound, cat, "state_" \o cat \o "_" \o ts, ts))

\* StateManager._resolve_state_path with current_bound_path: the path of the
\* file bound to the category, which is first bound to the default name
\* state_<category>_<ts> when nothing is bound; with the dict after it
resolve_state_path(bound, category, ts) ==
    LET cat == MapLower(category)
        at(b) == [bound |-> b, path |-> "state/" \o cat \o "/" \o b[cat] \o ".json"]
    IN  IF cat \in DOMAIN bound THEN at(bound)
        ELSE at(bind_state_basename(bound, cat, "state_" \o cat \o "_" \o ts, ts))

\* StateManager._atomic_write: mkstemp makes an empty temporary file in the
\* directory of the target, json.dump fills it, os.replace renames it to
\* the target.  The temporary files of a target stand under one name.
atomic_write(files, path, data_dict, crash) ==
    LET tmp == path \o ".tmp_state"
    IN  CASE crash \in {"created", "dumping"} ->
                Put(files, tmp, [ok |-> FALSE, json |-> [order |-> <<>>, at |-> <<>>]])
          [] crash = "dumped" -> Put(files, tmp, [ok |-> TRUE, json |-> data_dict])
          [] OTHER -> Put(files, path, [ok |-> TRUE, json |-> data_dict])

(***************************************************************************)
(* SearchEngineNews.py : search(keyword) and its five providers.  In this  *)
(* model a provider makes one request for a keyword; the request returns   *)
(* no article, returns one article of Articles, or fails.                  *)
(***************************************************************************)
\* search, lines 306-312: the providers in the order they are called
Providers == <<"GNews", "NewsAPI", "SerpAPI.GoogleNews", "GDELT", "NewsData">>
\* the set of source ids each provider keeps
IdsOf == <<"gnews_ids", "newsapi_ids", "serpapi_ids", "gdelt_ids", "newsdata_ids">>
GDELT == 4

\* the ways a request fails: HTTP 429, a response body that reports an
\* exhausted quota, a non-JSON answer (the provider blocks, or GDELT
\* rejects the query), a network failure, any other failure
Failures == {"http_429", "quota_in_body", "blocked", "network", "bad_query", "unexpected"}
\* the failures of the classified provider failure kinds
ClassifiedFailures == {"http_429", "quota_in_body", "blocked", "network", "bad_query"}

\* can the provider meet the failure: only the first three providers read a
\* quota message in the body (lines 369, 463, 663), only GDELT takes a
\* non-JSON answer as a malformed query (_request_json, lines 263-280)
CanFail(prov, failure) ==
    /\ failure = "quota_in_body" => prov \in 1..3
    /\ failure = "bad_query" => prov = GDELT

\* the exception the provider's code raises for the failure; the quota
\* message is raised as ProviderRateLimitError(host, message, context):
\* three positional arguments, which ProviderError.__init__ does not take
Raised(failure) ==
    CASE failure = "http_429"      -> "ProviderRateLimitError"
      [] failure = "quota_in_body" -> "TypeError"
      [] failure = "blocked"       -> "ProviderBlockedError"
      [] failure = "network"       -> "NetworkError"
      [] failure = "bad_query"     -> "ProviderBadQueryError"
      [] OTHER                     -> "Exception"

\* what becomes of an exception raised by the request of provider prov:
\* _search_gdelt catches ProviderBadQueryError, ProviderBlockedError and
\* Exception around its request ("absorbed"); search catches the three
\* classes of its except clauses and goes on with the next provider
\* ("skipped"); any other exception leaves search ("escaped")
Fate(prov, exception) ==
    IF prov = GDELT THEN "absorbed"
    ELSE IF exception \in {"ProviderRateLimitError", "ProviderBlockedError", "NetworkError"}
    THEN "skipped"
    ELSE "escaped"

\* the body of the loop of provider prov over the articles of a response,
\* for the article of the item new_data: url is the stripped URL of the
\* article, norm_id its normalize_url, master_id the outcome of the lookup
\* of add_or_update_result
provider_ingest(e, prov, new_data, url, norm_id, master_id) ==
    IF url = "" THEN e
    ELSE IF prov = GDELT
    THEN (IF url \in e.gdelt_ids THEN e
          ELSE add_or_update_result(e, new_data, master_id))
    ELSE IF norm_id \in e[IdsOf[prov]]
    THEN [e EXCEPT !.duplicate_count = @ + 1]
    ELSE [add_or_update_result(e, new_data, master_id)
            EXCEPT ![IdsOf[prov]] = @ \cup {norm_id}]

(***************************************************************************)
(* filters/FilterEngine.py : filter_and_classify_items for news.  The      *)
(* answers of the three collaborators (AutomotiveCyberFilter.score_text,   *)
(* IncidentFilter.classify, MultiModelTaggerLocal.classify_with_ensemble)  *)
(* for an item are inputs of the pass; None of the decision fields is "".  *)
(***************************************************************************)
\* normalize_title of the titles of the model
NormTitle == [t \in Titles |-> normalize_title(t)]

\* self._cutoff_red: a relevance score below it is noise
cutoff_red == 4

\* the answers of the collaborators for one item: the relevance score, the
\* action gate (keep, reasons) and, for each level, the ensemble (the label
\* and accepted of classify_with_ensemble)
Answers ==
    LET is(l1, a1, l2, a2) == [L1 |-> [label |-> l1, accepted |-> a1],
                               L2 |-> [label |-> l2, accepted |-> a2]]
    IN  { [score |-> 3, keep |-> TRUE,  reasons |-> <<"breach confirmed">>,
           ensemble |-> is("incident", TRUE, "ransomware", TRUE)],
          [score |-> 4, keep |-> FALSE, reasons |-> <<>>,
           ensemble |-> is("incident", TRUE, "ransomware", TRUE)],
          [score |-> 4, keep |-> TRUE,  reasons |-> <<>>,
           ensemble |-> is("marketing", TRUE, "ransomware", TRUE)],
          [score |-> 9, keep |-> TRUE,  reasons |-> <<"breach confirmed">>,
           ensemble |-> is("NO_LABEL", FALSE, "ransomware", TRUE)],
          [score |-> 9, keep |-> TRUE,  reasons |-> <<"breach confirmed">>,
           ensemble |-> is("incident", TRUE, "ransomware", TRUE)],
          [score |-> 9, keep |-> TRUE,  reasons |-> <<>>,
           ensemble |-> is("incident", TRUE, "advisory", TRUE)],
          [score |-> 9, keep |-> TRUE,  reasons |-> <<>>,
           ensemble |-> is("incident", TRUE, "other", TRUE)] }

\* values_levels_ia with one level and with two levels; <<>> is the empty
\* dict.  The second level names one of its labels as its abstain_label.
OneLevel == [L1 |-> [labels |-> {"incident", "marketing"}, bad_labels |-> {"marketing"},
                     abstain_label |-> "NO_LABEL"]]
TwoLevels == [L1 |-> [labels |-> {"incident", "marketing"}, bad_labels |-> {"marketing"},
                      abstain_label |-> "NO_LABEL"],
              L2 |-> [labels |-> {"ransomware", "advisory", "other"},
                      bad_labels |-> {"advisory"}, abstain_label |-> "other"]]

\* a classification gate that goes by the acceptance of the ensemble alone
rejected_when_not_accepted(answer, config) == ~answer.accepted

\* lines 375-379: is the item discarded at a level, given the answer of the
\* ensemble and the configuration of the level
rejected(answer, config) ==
    \/ ~answer.accepted
    \/ answer.label \in config.bad_labels
    \/ answer.label = config.abstain_label

\* a turn of the loop that asks the incident filter first and the relevance
\* score after it, whatever the incident filter answered
filter_item_calling_incident_first(i, item, norm_key, v, apply_filter_ia, niveles, analyzed) ==
    LET Decide(it, decision, gate, reasons) ==
            [Decision |-> decision, DecisionGate |-> gate, DecisionReasons |-> reasons] @@ it
        start == Decide(item, "", "", <<>>)
        scored == [Heur_Score |-> v.score, IncidentCategory |-> IF v.keep THEN "incident" ELSE "hypothetical"] @@ start
    IN  IF item.Year \notin 2020..2025
        THEN [item |-> start, calls |-> <<>>, end |-> "year"]
        ELSE IF ~v.keep
        THEN [item |-> Decide(scored, "drop", "incident_filter", <<"No evidencia suficiente de incidente real">>),
              calls |-> << <<i, "incident">>, <<i, "relevance">> >>, end |-> "drop"]
        ELSE IF v.score < cutoff_red
        THEN [item |-> Decide(scored, "drop", "automotive_filter", <<"Automoción insuficiente">>),
              calls |-> << <<i, "incident">>, <<i, "relevance">> >>, end |-> "drop"]
        ELSE [item |-> Decide(scored, "keep", "final", v.reasons),
              calls |-> << <<i, "incident">>, <<i, "relevance">> >>, end |-> "save"]

\* lines 175-457, one turn of the loop for the item of position i: the item
\* with the fields the turn gives it, the collaborators it called, and how
\* the turn ended
filter_item(i, item, norm_key, v, apply_filter_ia, niveles, analyzed) ==
    LET \* item["Decision"], item["DecisionGate"], item["DecisionReasons"] = ...
        Decide(it, decision, gate, reasons) ==
            [Decision |-> decision, DecisionGate |-> gate,
             DecisionReasons |-> FirstK(reasons, 5)] @@ it
        start == Decide(item, "", "", <<>>)
        scored == [Heur_Score |-> v.score] @@ start
        gated == [IncidentCategory |-> IF v.keep THEN "incident" ELSE "hypothetical",
                  IncidentReasons |-> v.reasons] @@ scored
        two == << <<i, "relevance">>, <<i, "incident">> >>
        \* item[f"Label_{level_id}"], item[f"Accepted_{level_id}"] = ...
        labelled(it, level_id) ==
            IF level_id = "L1"
            THEN [Label_L1 |-> v.ensemble.L1.label,
                  Accepted_L1 |-> v.ensemble.L1.accepted] @@ it
            ELSE [Label_L2 |-> v.ensemble.L2.label,
                  Accepted_L2 |-> v.ensemble.L2.accepted] @@ it
        kept(it) == Decide(it, "keep", "final",
                           IF v.reasons = <<>> THEN <<"Cumple filtros automoción e incidente">>
                           ELSE FirstK(v.reasons, 3))
    IN  IF item.Year \notin 2020..2025
        THEN [item |-> start, calls |-> <<>>, end |-> "year"]
        ELSE IF v.score < cutoff_red
        THEN [item |-> Decide(scored, "drop", "automotive_filter",
                              <<"Automoción insuficiente">>),
              calls |-> << <<i, "relevance">> >>, end |-> "drop"]
        ELSE IF ~v.keep
        THEN [item |-> Decide(gated, "drop", "incident_filter",
                              IF v.reasons = <<>>
                              THEN <<"No evidencia suficiente de incidente real">>
                              ELSE v.reasons),
              calls |-> two, end |-> "drop"]
        ELSE IF norm_key \in analyzed
        THEN [item |-> gated, calls |-> two, end |-> "repeated"]
        ELSE IF ~apply_filter_ia
        THEN [item |-> kept(gated), calls |-> two, end |-> "save"]
        ELSE IF niveles = <<>>
        THEN [item |-> gated, calls |-> two, end |-> "return"]
        ELSE LET RECURSIVE cascade(_, _, _)
                 \* for level_id, config in niveles.items(): ...
                 cascade(it, levels, calls) ==
                     IF levels = <<>>
                     THEN [item |-> kept(it), calls |-> calls, end |-> "analyzed"]
                     ELSE IF niveles[Head(levels)].labels = {}
                     THEN cascade(it, Tail(levels), calls)
                     ELSE IF rejected(v.ensemble[Head(levels)], niveles[Head(levels)])
                     THEN [item |-> Decide(labelled(it, Head(levels)), "drop", "ai_zeroshot",
                                           <<"Nivel " \o Head(levels) \o ": label="
                                             \o v.ensemble[Head(levels)].label>>),
                           calls |-> Append(calls, <<i, "classification">>), end |-> "drop"]
                     ELSE cascade(labelled(it, Head(levels)), Tail(levels),
                                  Append(calls, <<i, "classification">>))
             IN  cascade(gated, SelectSeq(<<"L1", "L2">>, LAMBDA l : l \in DOMAIN niveles), two)

\* FilterEngine.__init__: the outcome counters of a new filter engine
FilterEngine ==
    [total_items |-> 0, filtered_by_year |-> 0, filtered_by_heuristic_auto |-> 0,
     filtered_by_heuristic_inci |-> 0, already_processed_ia |-> 0,
     filtered_by_ai |-> 0, saved_items |-> 0]

\* the counters after a turn of the loop that counts no item analysed before
counted_without_repeated(stats, r) ==
    CASE r.end = "year" -> [stats EXCEPT !.filtered_by_year = @ + 1]
      [] r.end = "drop" /\ r.item.DecisionGate = "automotive_filter" ->
            [stats EXCEPT !.filtered_by_heuristic_auto = @ + 1]
      [] r.end = "drop" /\ r.item.DecisionGate = "incident_filter" ->
            [stats EXCEPT !.filtered_by_heuristic_inci = @ + 1]
      [] r.end = "drop" /\ r.item.DecisionGate = "ai_zeroshot" ->
            [stats EXCEPT !.filtered_by_ai = @ + 1]
      [] r.end \in {"save", "analyzed"} -> [stats EXCEPT !.saved_items = @ + 1]
      [] OTHER -> stats

\* the counters of the filter engine after the turn r of the loop: the
\* "+= 1" of the branch the turn took (lines 210, 246, 313, 321, 382, 455),
\* none when the turn left the pass at line 333
counted(stats, r) ==
    CASE r.end = "year" -> [stats EXCEPT !.filtered_by_year = @ + 1]
      [] r.end = "drop" /\ r.item.DecisionGate = "automotive_filter" ->
            [stats EXCEPT !.filtered_by_heuristic_auto = @ + 1]
      [] r.end = "drop" /\ r.item.DecisionGate = "incident_filter" ->
            [stats EXCEPT !.filtered_by_heuristic_inci = @ + 1]
      [] r.end = "repeated" -> [stats EXCEPT !.already_processed_ia = @ + 1]
      [] r.end = "drop" /\ r.item.DecisionGate = "ai_zeroshot" ->
            [stats EXCEPT !.filtered_by_ai = @ + 1]
      [] r.end \in {"save", "analyzed"} -> [stats EXCEPT !.saved_items = @ + 1]
      [] OTHER -> stats

\* FilterEngine.filter_and_classify_items(engine, "news") of the filter
\* engine with the counters stats: the engine after the pass, the calls of
\* the pass to the collaborators, in order, and the counters after the pass
filter_and_classify_items(stats, e, apply_filter_ia, niveles, verdict) ==
    LET RECURSIVE pass(_, _)
        turn(i, acc, r, norm_key) ==
            IF r.end = "return"
            THEN [eng |-> [acc.eng EXCEPT !.raw_items[i] = r.item],
                  calls |-> acc.calls \o r.calls,
                  stats |-> counted(acc.stats, r)]
            ELSE pass(i + 1,
                      [eng |-> [acc.eng EXCEPT
                                  !.raw_items[i] = r.item,
                                  !.ia_analyzed_ids =
                                      IF r.end = "analyzed" THEN @ \cup {norm_key} ELSE @,
                                  !.final_results =
                                      IF r.end \in {"save", "analyzed"}
                                      THEN Put(@, norm_key, r.item) ELSE @],
                       calls |-> acc.calls \o r.calls,
                       stats |-> counted(acc.stats, r)])
        step(i, acc, item, norm_key) ==
            turn(i, acc,
                 filter_item(i, item, norm_key, verdict[i], apply_filter_ia, niveles,
                             acc.eng.ia_analyzed_ids),
                 norm_key)
        pass(i, acc) ==
            IF i > Len(acc.eng.raw_items) THEN acc
            ELSE step(i, acc, acc.eng.raw_items[i], NormTitle[acc.eng.raw_items[i].Title])
    IN  \* self.total_items += len(engine.raw_items)
        pass(1, [eng |-> e, calls |-> <<>>,
                 stats |-> [stats EXCEPT !.total_items = @ + Len(e.raw_items)]])

(***************************************************************************)
(* The vulnerability engine, whose source is not in the repository: it     *)
(* keeps the vulnerabilities found and the ids analysed, search(keyword)   *)
(* adds the vulnerabilities of the keyword or raises a failure.            *)
(***************************************************************************)
NewVuln == [vulnerabilities |-> {}, analiced_cve_ids |-> {}]
vuln_search(v, keyword) ==
    [v EXCEPT !.vulnerabilities = @ \cup {"CVE of " \o keyword}]

(***************************************************************************)
(* State                                                                   *)
(***************************************************************************)
VARIABLES
    eng,    \* the news engine in memory
    peng,   \* the paper engine's raw_items
    last,   \* history: the last engine operation and the stores before it;
            \* url is the normalised URL of the observation it ingested and
            \* known tells whether an earlier observation had that URL
    seen,   \* history: the normalised URLs of the observations ingested
    pc,     \* where the program is: "idle" when no run is going on
    run,    \* the local variables of the keyword loop
    ckpt,   \* the checkpoint file bound to the run, <<>> when there is none
    lckpt,  \* the state file of the command line program, <<>> when none
    veng,   \* the vulnerability engine in memory
    ref,    \* history: a news engine that ingests the same observations as
            \* eng and is never saved and restored
    hist,      \* history of the run and of the behaviour
    disk    \* the state manager: the dict of bound names, the files, the
            \* clock, the state load_state returned, and the last call

dedupvars == <<eng, peng, last, seen>>
appvars == <<pc, run, ckpt, lckpt, veng, ref, hist>>
vars == <<eng, peng, last, seen, pc, run, ckpt, lckpt, veng, ref, hist, disk>>

\* the number of engine operations of a behaviour of SpecDedup
MaxOps == 4
\* the longest keyword list of a run of the application
MaxKw == 2
\* the longest keyword list of a run of the command line program
MaxLegacyKw == 5
\* the number of articles the providers return in a behaviour
MaxIngest == 2
\* the providers of the application return the articles 1..MaxArticle
MaxArticle == 3
\* the number of runs, new or resumed, of a behaviour
MaxRuns == 2

\* canonical URLs an enrichment can report
Canonicals == {"https://b.com/y", "https://e.com/canon?utm_medium=x"}

\* the keyword lists are the prefixes of this list
Keywords == <<"kw1", "kw2", "kw3", "kw4", "kw5", "kw6", "kw7">>

NoRun == [entry |-> "", cat |-> "", kws |-> <<>>, idx |-> 0, processed |-> 0,
          total |-> 0, prov |-> 0, cur |-> ""]
NoOut == [failure |-> "", prov |-> 0, fate |-> ""]
NoErr == [failure |-> "", message |-> "", kw |-> "", snap |-> None]

Init ==
    /\ eng = NewEngine
    /\ peng = <<>>
    /\ last = [op |-> "init", art |-> 0, mid |-> "", eng |-> NewEngine, peng |-> <<>>,
               n |-> 0, url |-> "", known |-> FALSE]
    /\ seen = {}
    /\ pc = "idle"
    /\ run = NoRun
    /\ ckpt = <<>>
    /\ lckpt = <<>>
    /\ veng = NewVuln
    /\ ref = NewEngine
    /\ disk = [bound |-> <<>>, files |-> <<>>, now |-> 1, loaded |-> None, crashes |-> 0,
               op |-> [name |-> "", category |-> "", path |-> "", arg |-> "",
                       crash |-> "none", bound |-> <<>>, files |-> <<>>,
                       data |-> [order |-> <<>>, at |-> <<>>]]]
    /\ hist = [entry |-> "",           \* how the run was started
            writes |-> <<>>,        \* the writes of the run to its checkpoint
            calls |-> 0,            \* the provider calls of the run
            out |-> NoOut,          \* the failure of the last provider call
            err |-> NoErr,          \* the failure that reached the keyword loop
            crashedIn |-> "",       \* the keyword in flight when the run died
            restoreFailed |-> FALSE,\* the snapshot could not be restored
            emptyResume |-> FALSE,  \* resumed with no remaining keyword
            resumed |-> FALSE,      \* the news run was paused and resumed
            lost |-> FALSE,         \* a pause lost observations of the engine
            since |-> 0,            \* the keywords finished since the last
                                    \* write of the state file was completed
            runs |-> 0, n |-> 0]

\* one call add_or_update_result(create_new_model(...)) for the article i
Add(i) ==
    LET ingest(new_data, k) ==
            /\ \E mid \in match(eng, k) :
                 /\ eng' = add_or_update_result(eng, new_data, mid)
                 /\ last' = [op |-> "add", art |-> i, mid |-> mid, eng |-> eng,
                             peng |-> peng, n |-> last.n + 1, url |-> k.norm_url,
                             known |-> k.norm_url \in seen]
            /\ seen' = seen \cup {k.norm_url}
    IN  /\ last.n < MaxOps
        /\ ingest(NewItems[i], KeysOf[NewItems[i]])
        /\ UNCHANGED <<peng, appvars, disk>>

\* the snapshot of the engine is loaded into a fresh engine
Reload ==
    /\ last.n < MaxOps
    /\ eng' = load_state_snapshot(NewEngine, get_state_snapshot(eng))
    /\ last' = [op |-> "load", art |-> 0, mid |-> "", eng |-> eng, peng |-> peng,
                n |-> last.n + 1, url |-> "", known |-> FALSE]
    /\ UNCHANGED <<peng, seen, appvars, disk>>

\* an enrichment finds the canonical URL of a stored record
Reindex(pos, canonical_url) ==
    /\ last.n < MaxOps
    /\ pos \in 1..Len(eng.raw_items)
    /\ eng' = maybe_reindex_to_canonical(eng, eng.raw_items[pos].ID, canonical_url)
    /\ last' = [op |-> "reindex", art |-> 0, mid |-> eng.raw_items[pos].ID, eng |-> eng,
                peng |-> peng, n |-> last.n + 1, url |-> "", known |-> FALSE]
    /\ UNCHANGED <<peng, seen, appvars, disk>>

\* one call of the paper engine's add_or_update_result
PaperAdd(i) ==
    /\ last.n < MaxOps
    /\ peng' = paper_add_or_update_result(peng, i)
    /\ last' = [op |-> "paper", art |-> i, mid |-> "", eng |-> eng, peng |-> peng,
                n |-> last.n + 1, url |-> "", known |-> FALSE]
    /\ UNCHANGED <<eng, seen, appvars, disk>>

NextDedup ==
    \/ \E i \in DOMAIN Articles : Add(i)
    \/ Reload
    \/ \E pos \in 1..MaxOps, c \in Canonicals : Reindex(pos, c)
    \/ \E i \in DOMAIN Papers : PaperAdd(i)

SpecDedup == Init /\ [][NextDedup]_vars

(***************************************************************************)
(* The final filter of a run over the store the ingestions have built      *)
(***************************************************************************)
\* the number of ingestions before the filter pass
MaxStore == 2
MaxPasses == 2

\* main_app, lines 261-264: final_results is emptied and the filter pass
\* runs over raw_items, with the answers verdict[i] for the item i; the
\* filter engine is the one of the application, new before its first pass.
\* A later pass over the same store has the settings of the engine and the
\* answers of the first one: the collaborators go by the text of the item
FilterPass(apply_filter_ia, niveles, verdict) ==
    LET done(r, passes) ==
            /\ eng' = r.eng
            /\ last' = [op |-> "filter", art |-> 0, mid |-> "", eng |-> eng, peng |-> peng,
                        n |-> last.n + 1, url |-> "", known |-> FALSE,
                        calls |-> r.calls, verdict |-> verdict,
                        apply_filter_ia |-> apply_filter_ia, niveles |-> niveles,
                        filter_engine |-> r.stats, passes |-> passes,
                        levels_ok |-> /\ apply_filter_ia => niveles # <<>>
                                      /\ last.op = "filter" => last.levels_ok]
    IN  /\ last.op = "filter" =>
              /\ last.passes < MaxPasses
              /\ apply_filter_ia = last.apply_filter_ia
              /\ niveles = last.niveles
              /\ verdict = last.verdict
        /\ eng.raw_items # <<>>
        /\ apply_filter_ia \/ niveles = <<>>
        /\ done(filter_and_classify_items(
                    IF last.op = "filter" THEN last.filter_engine ELSE FilterEngine,
                    [eng EXCEPT !.final_results = <<>>],
                    apply_filter_ia, niveles, verdict),
                IF last.op = "filter" THEN last.passes + 1 ELSE 1)
        /\ UNCHANGED <<peng, seen, appvars, disk>>

NextFilter ==
    \/ \E i \in DOMAIN Articles : last.op # "filter" /\ last.n < MaxStore /\ Add(i)
    \/ \E apply_filter_ia \in BOOLEAN, niveles \in {<<>>, OneLevel, TwoLevels},
          verdict \in [1..Len(eng.raw_items) -> Answers] :
          FilterPass(apply_filter_ia, niveles, verdict)

SpecFilter == Init /\ [][NextFilter]_vars

(***************************************************************************)
(* The calls of the state manager, in any order, by a process that can be  *)
(* killed during a write and started again: the dict of bound names is     *)
(* memory of the process, the files stay.  The state file of the command   *)
(* line program (utils/StateManager.py) is one of the files.               *)
(***************************************************************************)
\* the number of calls of a behaviour, and of kills of the process
MaxCalls == 3
MaxCrashes == 1

\* _now_ts() at each value of the clock
Stamps == <<"05-11-2026_08-31", "05-11-2026_08-32", "05-11-2026_08-33", "05-11-2026_08-34">>
\* the points of a write at which the process can be killed: after the file
\* to write into was created, while json.dump writes, after json.dump, and
\* after os.replace
CrashPoints == {"none", "created", "dumping", "dumped", "replaced"}
Categories == {"news", "News"}
Basenames == {"mi estado", "state_news_05-11-2026_08-31"}

\* the files a user uploads to resume: a text that is not JSON, an object
\* without engine_state, and a checkpoint of a paused run
Uploads ==
    << [ok |-> FALSE, json |-> [order |-> <<>>, at |-> <<>>]],
       [ok |-> TRUE, json |-> Update([order |-> <<>>, at |-> <<>>],
            << <<"category", "news">>, <<"remaining_keywords", <<"kw2">>>> >>)],
       [ok |-> TRUE, json |-> Update([order |-> <<>>, at |-> <<>>],
            << <<"version", 3>>, <<"category", "News">>, <<"status", "ERROR">>,
               <<"remaining_keywords", <<"kw2">>>>, <<"engine_state", None>>,
               <<"error_type", "NetworkError">>, <<"last_saved_at", 0>> >>)] >>

\* the arguments of save_state: the call of a resumed run (main_app, lines
\* 565-575), and a call with a keyword argument save_state does not know
Saves ==
    << [remaining_keywords |-> <<"kw2">>, results |-> <<>>, engine_state |-> None,
        analiced_ids |-> <<>>, filter_stats |-> <<>>,
        extra |-> << <<"params", [apply_filter_ia |-> FALSE]>>, <<"status", "RUNNING">> >>],
       [remaining_keywords |-> <<>>, results |-> <<>>, engine_state |-> None,
        analiced_ids |-> <<>>, filter_stats |-> <<>>,
        extra |-> << <<"processed_keywords", 1>>, <<"error_type", "NetworkError">> >>] >>

\* the keyword arguments of patch_state, mark_error and mark_completed: none,
\* those of the keyword loop (main_app, lines 228-238), and those of a pause
\* (lines 243-256)
Patches ==
    << <<>>,
       << <<"filter_stats", <<>>>>,
          <<"progress", [total_keywords |-> 1, processed_keywords |-> 1]>>,
          <<"remaining_keywords", <<>>>>, <<"results", <<>>>>,
          <<"analiced_ids", <<>>>>, <<"engine_state", None>> >>,
       << <<"error_type", "NetworkError">>, <<"message", "timeout">>,
          <<"remaining_keywords", <<"kw1">>>> >> >>

\* history: the manager after the call `name': the dict of bound names is
\* lost when the process was killed
Called(name, category, path, arg, crash, bound, files, data, loaded) ==
    [bound |-> IF crash = "none" THEN bound ELSE <<>>,
     files |-> files, now |-> disk.now + 1,
     loaded |-> IF crash = "none" THEN loaded ELSE None,
     crashes |-> disk.crashes + (IF crash = "none" THEN 0 ELSE 1),
     op |-> [name |-> name, category |-> category, path |-> path, arg |-> arg,
             crash |-> crash, bound |-> disk.bound, files |-> disk.files, data |-> data]]

\* a call can be made, and the process can be killed at the point `crash'
CanCall(crash) ==
    /\ disk.now <= MaxCalls
    /\ crash # "none" => disk.crashes < MaxCrashes

\* StateManager.bind_state_basename(category, basename)
Bind(category, basename) ==
    /\ CanCall("none")
    /\ disk' = Called("bind", category, "", "", "none",
                      bind_state_basename(disk.bound, category, basename, Stamps[disk.now]),
                      disk.files, disk.op.data, disk.loaded)
    /\ UNCHANGED <<dedupvars, appvars>>

\* StateManager.unbind(category), and unbind() when `every' holds
Unbind(category, every) ==
    /\ CanCall("none")
    /\ disk' = Called("unbind", category, "", "", "none",
                      IF every THEN <<>>
                      ELSE [c \in (DOMAIN disk.bound) \ {MapLower(category)} |-> disk.bound[c]],
                      disk.files, disk.op.data, disk.loaded)
    /\ UNCHANGED <<dedupvars, appvars>>

\* "Retomar Búsqueda" up to the seed: _parse_saved_state_from_upload of the
\* uploaded file, and for a file it accepts unbind and bind_state_basename
\* with the uploaded state as the seed
Upload(uploaded_file, basename, crash) ==
    LET accepted == /\ uploaded_file.ok
                    /\ {"category", "remaining_keywords", "engine_state"}
                          \subseteq DOMAIN uploaded_file.json.at
        seed(saved_state, state_category) ==
            LET bound == bind_state_basename(
                             [c \in (DOMAIN disk.bound) \ {state_category} |-> disk.bound[c]],
                             state_category, basename, Stamps[disk.now])
                path == "state/" \o state_category \o "/" \o bound[state_category] \o ".json"
            IN  Called("upload", state_category, path, "seed", crash, bound,
                       atomic_write(disk.files, path, saved_state, crash), saved_state,
                       disk.loaded)
    IN  /\ CanCall(crash)
        /\ ~accepted => crash = "none"
        /\ disk' = IF accepted
                   THEN seed(uploaded_file.json, MapLower(uploaded_file.json.at["category"]))
                   ELSE Called("upload", "", "", "rejected", "none", disk.bound, disk.files,
                               uploaded_file.json, disk.loaded)
        /\ UNCHANGED <<dedupvars, appvars>>

\* StateManager.init_state(category, keywords, params)
InitState(category, keywords, crash) ==
    LET write(r, state) ==
            Called("init_state", category, r.path, "", crash, r.bound,
                   atomic_write(disk.files, r.path, state, crash), state, disk.loaded)
    IN  /\ CanCall(crash)
        /\ disk' = write(resolve_state_path(disk.bound, category, Stamps[disk.now]),
                         Update([order |-> <<>>, at |-> <<>>],
                            << <<"version", SCHEMA_VERSION>>, <<"category", category>>,
                               <<"status", "RUNNING">>,
                               <<"params", [apply_filter_ia |-> FALSE]>>,
                               <<"remaining_keywords", keywords>>,
                               <<"current_keyword", None>>, <<"cursors", <<>>>>,
                               <<"analiced_ids", <<>>>>, <<"results", <<>>>>,
                               <<"engine_state", None>>, <<"filter_stats", <<>>>>,
                               <<"progress", [total_keywords |-> Len(keywords),
                                              processed_keywords |-> 0]>>,
                               <<"last_error", None>>, <<"last_saved_at", disk.now>> >>))
        /\ UNCHANGED <<dedupvars, appvars>>

\* StateManager.save_state(category, remaining_keywords, results,
\* engine_state, analiced_ids, filter_stats, **extra), with the arguments
\* `call'; arg tells where they come from
SaveState(category, arg, call, crash) ==
    LET known == {"status", "params", "current_keyword", "cursors", "progress",
                  "last_error", "processed_keywords"}
        body(extra, extras) ==
            LET state ==
                  Update([order |-> <<>>, at |-> <<>>],
                     << <<"version", SCHEMA_VERSION>>, <<"category", category>>,
                        <<"status", Get(extra, "status", "RUNNING")>>,
                        <<"params", Get(extra, "params", <<>>)>>,
                        <<"remaining_keywords", call.remaining_keywords>>,
                        <<"current_keyword", Get(extra, "current_keyword", None)>>,
                        <<"cursors", Get(extra, "cursors", <<>>)>>,
                        <<"analiced_ids", call.analiced_ids>>,
                        <<"results", call.results>>,
                        <<"engine_state", call.engine_state>>,
                        <<"progress",
                          Get(extra, "progress",
                              [total_keywords |-> Len(call.remaining_keywords),
                               processed_keywords |-> Get(extra, "processed_keywords", 0)])>>,
                        <<"filter_stats", call.filter_stats>>,
                        <<"last_error", Get(extra, "last_error", None)>>,
                        <<"last_saved_at", disk.now>> >>)
            IN  IF Len(extras) = 0 THEN state
                ELSE Update(state, << <<"extras", Update([order |-> <<>>, at |-> <<>>], extras)>> >>)
        write(r, state) ==
            Called("save_state", category, r.path, arg, crash, r.bound,
                   atomic_write(disk.files, r.path, state, crash), state, disk.loaded)
    IN  /\ CanCall(crash)
        /\ disk' = write(resolve_state_path(disk.bound, category, Stamps[disk.now]),
                         body(Update([order |-> <<>>, at |-> <<>>], call.extra).at,
                              SelectSeq(call.extra, LAMBDA kv : kv[1] \notin known)))
        /\ UNCHANGED <<dedupvars, appvars>>

\* the arguments of a save_state that saves the state load_state returned:
\* each parameter of save_state from the key of its name, and as keyword
\* arguments the keys save_state knows ("known") or every other key ("all")
SavesOfLoaded(state, how) ==
    LET named == {"category", "remaining_keywords", "results", "engine_state",
                  "analiced_ids", "filter_stats"}
        known == <<"status", "params", "current_keyword", "cursors", "progress", "last_error">>
        keys == IF how = "known" THEN known
                ELSE SelectSeq(state.order, LAMBDA k : k \notin named)
    IN  [remaining_keywords |-> state.at["remaining_keywords"],
         results |-> state.at["results"], engine_state |-> state.at["engine_state"],
         analiced_ids |-> state.at["analiced_ids"], filter_stats |-> state.at["filter_stats"],
         extra |-> [i \in 1..Len(keys) |-> <<keys[i], state.at[keys[i]]>>]]

\* StateManager.patch_state(category, **patch), and mark_error and
\* mark_completed, which call it with a status before their arguments
PatchState(category, via, patch, crash) ==
    LET first == CASE via = "mark_error" -> << <<"status", "ERROR">> >>
                   [] via = "mark_completed" ->
                        << <<"status", "COMPLETED">>, <<"last_error", None>> >>
                   [] OTHER -> <<>>
        read(path) == IF path \in DOMAIN disk.files /\ disk.files[path].ok
                      THEN disk.files[path].json
                      ELSE [order |-> <<>>, at |-> <<>>]
        write(r, state) ==
            Called(via, category, r.path, "", crash, r.bound,
                   atomic_write(disk.files, r.path, state, crash), state, disk.loaded)
        patched(r) ==
            write(r, Update(read(r.path),
                            first \o patch \o << <<"last_saved_at", disk.now>> >>))
    IN  /\ CanCall(crash)
        /\ disk' = patched(resolve_state_path(disk.bound, category, Stamps[disk.now]))
        /\ UNCHANGED <<dedupvars, appvars>>

\* StateManager.load_state(category): None without a bound file, the
\* exception of json.load for a text it does not parse, and else the state
\* of the file with the missing keys set to their defaults
LoadState(category) ==
    LET cat == MapLower(category)
        path == IF cat \in DOMAIN disk.bound
                THEN "state/" \o cat \o "/" \o disk.bound[cat] \o ".json" ELSE ""
        defaults(state) ==
            << <<"version", 1>>, <<"status", "RUNNING">>, <<"params", <<>>>>,
               <<"current_keyword", None>>, <<"cursors", <<>>>>, <<"analiced_ids", <<>>>>,
               <<"results", <<>>>>, <<"filter_stats", <<>>>>, <<"engine_state", None>>,
               <<"progress", [total_keywords |-> Len(Get(state.at, "remaining_keywords", <<>>)),
                              processed_keywords |-> 0]>>,
               <<"last_error", None>>, <<"last_saved_at", disk.now>> >>
        normalised(state) ==
            Update(state, SelectSeq(defaults(state), LAMBDA kv : kv[1] \notin DOMAIN state.at))
        loaded == IF path = "" \/ path \notin DOMAIN disk.files THEN None
                  ELSE IF ~disk.files[path].ok THEN [raised |-> "JSONDecodeError"]
                  ELSE normalised(disk.files[path].json)
    IN  /\ CanCall("none")
        /\ disk' = Called("load_state", category, path, "", "none", disk.bound, disk.files,
                          disk.op.data, loaded)
        /\ UNCHANGED <<dedupvars, appvars>>

\* utils/StateManager.save_state of the command line program: the state is
\* written into data/state_<category>.json itself, which open(path, "w")
\* empties; the process killed is the command line program
LegacySaveState(category, remaining_keywords, crash) ==
    LET path == "data/state_" \o MapLower(category) \o ".json"
        state == Update([order |-> <<>>, at |-> <<>>],
                        << <<"remaining_keywords", remaining_keywords>>,
                           <<"analiced_ids", <<>>>>, <<"results", <<>>>> >>)
        written == IF crash \in {"created", "dumping"}
                   THEN [ok |-> FALSE, json |-> [order |-> <<>>, at |-> <<>>]]
                   ELSE [ok |-> TRUE, json |-> state]
    IN  /\ CanCall(crash)
        /\ disk' = [Called("legacy_save_state", category, path, "", crash, disk.bound,
                           Put(disk.files, path, written), state, disk.loaded)
                      EXCEPT !.bound = disk.bound, !.loaded = disk.loaded]
        /\ UNCHANGED <<dedupvars, appvars>>

\* the environment: a file of the state directory is damaged (cut short by a
\* copy, edited by hand) and no longer parses
Damage(path) ==
    /\ CanCall("none")
    /\ path \in DOMAIN disk.files
    /\ StartsWith(path, "state/")
    /\ disk.files[path].ok
    /\ disk' = Called("damage", "", path, "", "none", disk.bound,
                      Put(disk.files, path, [ok |-> FALSE, json |-> [order |-> <<>>, at |-> <<>>]]),
                      disk.op.data, disk.loaded)
    /\ UNCHANGED <<dedupvars, appvars>>

NextState ==
    \/ \E category \in Categories, basename \in Basenames : Bind(category, basename)
    \/ \E category \in Categories, every \in BOOLEAN : Unbind(category, every)
    \/ \E i \in DOMAIN Uploads, basename \in Basenames, crash \in CrashPoints :
          Upload(Uploads[i], basename, crash)
    \/ \E category \in Categories, n \in 1..2, crash \in CrashPoints :
          InitState(category, SubSeq(Keywords, 1, n), crash)
    \/ \E category \in Categories, i \in DOMAIN Saves, crash \in CrashPoints :
          SaveState(category, "call", Saves[i], crash)
    \/ \E how \in {"known", "all"} :
          /\ disk.op.name = "load_state"
          /\ {"order", "at"} \subseteq DOMAIN disk.loaded
          /\ {"category", "remaining_keywords"} \subseteq DOMAIN disk.loaded.at
          /\ SaveState(disk.loaded.at["category"], how, SavesOfLoaded(disk.loaded, how), "none")
    \/ \E category \in Categories, via \in {"patch_state", "mark_error", "mark_completed"},
          i \in DOMAIN Patches, crash \in CrashPoints :
          PatchState(category, via, Patches[i], crash)
    \/ \E category \in Categories : LoadState(category)
    \/ \E category \in Categories, n \in 0..1, crash \in CrashPoints :
          LegacySaveState(category, SubSeq(Keywords, 1, n), crash)
    \/ \E path \in DOMAIN disk.files : Damage(path)

SpecState == Init /\ [][NextState]_vars

(***************************************************************************)
(* app/main_app.py : a new run (_search_by_category) and a resumed run     *)
(* (the branch "Retomar Búsqueda") over the categories news and            *)
(* vulnerabilities, and main.py : the loop of the command line program.    *)
(* A behaviour is of the application or of the command line program: the   *)
(* two are separate programs with separate state files.                    *)
(***************************************************************************)
\* the keys of a checkpoint that are read from the engine
EngineFields(cat, e, v) ==
    IF cat = "news"
    THEN [results |-> e.final_results, analiced_ids |-> e.ia_analyzed_ids,
          engine_state |-> get_state_snapshot(e)]
    ELSE [results |-> v.vulnerabilities, analiced_ids |-> v.analiced_cve_ids,
          engine_state |-> v]

\* a progress that counts the keywords this run has processed, not those the
\* runs before it had processed
ProgressOfThisRun(total, processed) ==
    [total_keywords |-> total,
     processed_keywords |-> processed - (run.total - Len(run.kws))]

Progress(total, processed) == [total_keywords |-> total, processed_keywords |-> processed]

\* history: what a write leaves in the checkpoint file
Written(state, seed) ==
    [status |-> Get(state, "status", ""),
     empty |-> Get(state, "remaining_keywords", None) = <<>>,
     seed |-> seed]

\* Python's truth value of a dict or None
Truthy(x) == x # None /\ x # <<>>

\* the engine in memory holds observations the checkpoint does not hold
Unsaved ==
    /\ run.cat = "news"
    /\ pc \in {"search", "returned"}
    /\ [get_state_snapshot(eng) EXCEPT !.duplicate_count = 0]
         # [ckpt.engine_state EXCEPT !.duplicate_count = 0]

\* the message of a failure of the vulnerability engine
Message(failure) == "vulnerabilities: " \o failure

\* the history of a run that starts
Started(writes, entry, readable, empty) ==
    [hist EXCEPT !.entry = entry, !.writes = writes, !.calls = 0, !.out = NoOut, !.err = NoErr,
              !.crashedIn = "", !.restoreFailed = ~readable, !.emptyResume = empty,
              !.resumed = IF entry = "legacy" THEN @
                          ELSE entry = "resume" /\ (@ \/ ckpt.category = "news"),
              !.lost = IF entry = "legacy" THEN @ ELSE entry = "resume" /\ (@ \/ ~readable),
              !.since = 0, !.runs = @ + 1]

\* "Nueva Búsqueda": _search_by_category up to the keyword loop
NewRun(cat, n) ==
    /\ pc = "idle"
    /\ hist.runs < MaxRuns
    /\ hist.entry # "legacy"
    /\ ckpt' = init_state(cat, SubSeq(Keywords, 1, n))
    /\ run' = [entry |-> "new", cat |-> cat, kws |-> SubSeq(Keywords, 1, n), idx |-> 1,
               processed |-> 0, total |-> n, prov |-> 0, cur |-> ""]
    /\ hist' = Started(<<Written(ckpt', FALSE)>>, "new", TRUE, FALSE)
    /\ eng' = NewEngine
    /\ veng' = NewVuln
    /\ ref' = NewEngine
    /\ pc' = "pre"
    /\ UNCHANGED <<peng, last, seen, lckpt, disk>>

\* the checkpoint before a keyword, and search(kw) up to its first provider
PreKeyword ==
    /\ pc = "pre"
    /\ ckpt' = patch_state(ckpt,
                  [current_keyword |-> run.kws[run.idx],
                   progress |-> Progress(run.total, run.processed),
                   remaining_keywords |-> SubSeq(run.kws, run.idx, Len(run.kws))]
                  @@ EngineFields(run.cat, eng, veng))
    /\ run' = [run EXCEPT !.cur = run.kws[run.idx], !.prov = 1]
    /\ eng' = IF run.cat = "news" THEN [eng EXCEPT !.duplicate_count = 0] ELSE eng
    /\ hist' = [hist EXCEPT !.writes = Append(@, Written(ckpt', FALSE)), !.out = NoOut,
                             !.since = 0]
    /\ pc' = "search"
    /\ UNCHANGED <<peng, last, seen, lckpt, veng, ref, disk>>

\* history: 1 when the request in flight is the last of search(kw)
Returned == IF run.prov = Len(Providers) THEN 1 ELSE 0

\* after the request of a provider, search calls the next one or returns
NextProvider ==
    /\ run' = [run EXCEPT !.prov = @ + 1]
    /\ pc' = IF run.prov = Len(Providers) THEN "returned" ELSE "search"

\* the request of the provider returns no article (i = 0) or the article i
ProviderReturns(i) ==
    LET \* the never restored engine takes the decision of eng when it can
        mirror(new_data, k, mid, ref_mids) ==
            \E rmid \in ref_mids :
                /\ mid \in ref_mids => rmid = mid
                /\ ref' = provider_ingest(ref, run.prov, new_data, k.url, k.norm_url, rmid)
        ingest(new_data, k) ==
            \E mid \in match(eng, k) :
                /\ eng' = provider_ingest(eng, run.prov, new_data, k.url, k.norm_url, mid)
                /\ mirror(new_data, k, mid, match(ref, k))
    IN  /\ pc = "search"
        /\ run.cat = "news"
        /\ IF i = 0
           THEN /\ hist' = [hist EXCEPT !.calls = @ + 1, !.out = NoOut,
                                        !.since = @ + Returned]
                /\ UNCHANGED <<eng, ref>>
           ELSE /\ i <= MaxArticle
                /\ Articles[i][1] = Providers[run.prov]
                /\ hist.n < MaxIngest
                /\ ingest(NewItems[i], KeysOf[NewItems[i]])
                /\ hist' = [hist EXCEPT !.calls = @ + 1, !.out = NoOut, !.n = @ + 1,
                                        !.since = @ + Returned]
        /\ NextProvider
        /\ UNCHANGED <<peng, last, seen, ckpt, lckpt, veng, disk>>

\* the run ends without a write
RunDies ==
    /\ pc' = "idle"
    /\ run' = NoRun
    /\ eng' = NewEngine
    /\ veng' = NewVuln

\* the request of the provider fails
ProviderFails(failure) ==
    /\ pc = "search"
    /\ run.cat = "news"
    /\ CanFail(run.prov, failure)
    /\ IF Fate(run.prov, Raised(failure)) = "escaped"
       THEN /\ RunDies
            /\ hist' = [hist EXCEPT !.calls = @ + 1,
                              !.out = [failure |-> failure, prov |-> run.prov, fate |-> "escaped"],
                              !.crashedIn = run.cur, !.lost = @ \/ Unsaved]
       ELSE /\ NextProvider
            /\ hist' = [hist EXCEPT !.calls = @ + 1,
                              !.out = [failure |-> failure, prov |-> run.prov,
                                       fate |-> Fate(run.prov, Raised(failure))],
                              !.since = @ + Returned]
            /\ UNCHANGED <<eng, veng>>
    /\ UNCHANGED <<peng, last, seen, ckpt, lckpt, ref, disk>>

\* search(kw) of the vulnerability engine returns
VulnSearchReturns ==
    /\ pc = "search"
    /\ run.cat = "vulnerabilities"
    /\ veng' = vuln_search(veng, run.cur)
    /\ hist' = [hist EXCEPT !.calls = @ + 1, !.since = @ + 1]
    /\ pc' = "returned"
    /\ UNCHANGED <<eng, peng, last, seen, run, ckpt, lckpt, ref, disk>>

\* search(kw) of the vulnerability engine raises: the keyword loop catches
\* the three classified failures, writes mark_error and returns
VulnSearchFails(failure) ==
    /\ pc = "search"
    /\ run.cat = "vulnerabilities"
    /\ IF Raised(failure) \in {"ProviderRateLimitError", "ProviderBlockedError", "NetworkError"}
       THEN /\ ckpt' = mark_error(ckpt,
                          [error_type |-> Raised(failure), message |-> Message(failure),
                           remaining_keywords |-> SubSeq(run.kws, run.idx, Len(run.kws)),
                           current_keyword |-> run.cur,
                           progress |-> Progress(run.total, run.processed)]
                          @@ EngineFields(run.cat, eng, veng))
            /\ hist' = [hist EXCEPT !.calls = @ + 1,
                              !.writes = Append(@, Written(ckpt', FALSE)), !.since = 0,
                              !.err = [failure |-> Raised(failure), message |-> Message(failure),
                                       kw |-> run.cur, snap |-> veng]]
       ELSE /\ hist' = [hist EXCEPT !.calls = @ + 1, !.crashedIn = run.cur]
            /\ UNCHANGED ckpt
    /\ RunDies
    /\ UNCHANGED <<peng, last, seen, lckpt, ref, disk>>

\* the checkpoint after a keyword
PostKeyword ==
    /\ pc = "returned"
    /\ ckpt' = patch_state(ckpt,
                  [progress |-> Progress(run.total, run.processed + 1),
                   remaining_keywords |-> SubSeq(run.kws, run.idx + 1, Len(run.kws))]
                  @@ EngineFields(run.cat, eng, veng))
    /\ run' = [run EXCEPT !.processed = @ + 1, !.idx = @ + 1, !.prov = 0, !.cur = ""]
    /\ hist' = [hist EXCEPT !.writes = Append(@, Written(ckpt', FALSE)), !.out = NoOut,
                             !.since = 0]
    /\ pc' = IF run.idx = Len(run.kws) THEN "filter" ELSE "pre"
    /\ UNCHANGED <<eng, peng, last, seen, lckpt, veng, ref, disk>>

\* after the loop: the final filter and mark_completed; the resumed run
\* passes no progress to mark_completed
Finalize ==
    LET \* the final filter of a run whose items pass every gate, the AI filter off
        Passes == [score |-> 9, keep |-> TRUE, reasons |-> <<"breach confirmed">>,
                   label |-> "incident", accepted |-> TRUE]
        final_filter(e) ==
            filter_and_classify_items(FilterEngine, e, FALSE, <<>>,
                                      [i \in 1..Len(e.raw_items) |-> Passes]).eng
        completed(e) ==
            /\ ckpt' = mark_completed(ckpt,
                          (IF run.entry = "new"
                           THEN [progress |-> Progress(run.total, run.processed)]
                           ELSE <<>>)
                          @@ [remaining_keywords |-> <<>>, current_keyword |-> None]
                          @@ EngineFields(run.cat, e, veng))
    IN  /\ pc = "filter"
        /\ completed(IF run.cat = "news"
                     THEN final_filter([eng EXCEPT !.final_results = <<>>])
                     ELSE eng)
        /\ ref' = IF run.cat = "news"
                  THEN final_filter([ref EXCEPT !.final_results = <<>>])
                  ELSE ref
        /\ hist' = [hist EXCEPT !.writes = Append(@, Written(ckpt', FALSE)), !.since = 0]
        /\ RunDies
        /\ UNCHANGED <<peng, last, seen, lckpt, disk>>

\* the process is killed
Crash ==
    /\ pc # "idle"
    /\ hist' = [hist EXCEPT !.out = NoOut,
                      !.crashedIn = IF pc \in {"search", "lsearch"} THEN run.cur ELSE "",
                      !.lost = @ \/ Unsaved]
    /\ RunDies
    /\ UNCHANGED <<peng, last, seen, ckpt, lckpt, ref, disk>>

\* an engine_state that load_state_snapshot cannot read
Unreadable == [unreadable |-> TRUE]

\* "Retomar Búsqueda" with the checkpoint file uploaded as it is, or with
\* its engine_state unreadable: the file is seeded with the upload, the
\* engine is rebuilt, and the loop starts unless no keyword remains
Resume(readable) ==
    LET rebuilt(saved_state, e, v) ==
            IF saved_state.remaining_keywords = <<>>
            THEN /\ ckpt' = saved_state
                 /\ hist' = Started(<<Written(saved_state, TRUE)>>, "resume", readable, TRUE)
                 /\ RunDies
            ELSE /\ ckpt' = save_state(saved_state.category, saved_state.remaining_keywords,
                                       EngineFields(saved_state.category, e, v).results,
                                       EngineFields(saved_state.category, e, v).engine_state,
                                       EngineFields(saved_state.category, e, v).analiced_ids,
                                       [status |-> "RUNNING"])
                 /\ hist' = Started(<<Written(saved_state, TRUE), Written(ckpt', FALSE)>>,
                                 "resume", readable, FALSE)
                 /\ run' = [entry |-> "resume", cat |-> saved_state.category,
                            kws |-> saved_state.remaining_keywords, idx |-> 1,
                            processed |-> Get(Get(saved_state, "progress", <<>>),
                                              "processed_keywords", 0),
                            total |-> Get(Get(saved_state, "progress", <<>>), "total_keywords",
                                          Get(Get(saved_state, "progress", <<>>),
                                              "processed_keywords", 0)
                                          + Len(saved_state.remaining_keywords)),
                            prov |-> 0, cur |-> ""]
                 /\ eng' = e
                 /\ veng' = v
                 /\ pc' = "pre"
        previous(saved_state) ==
            [NewEngine EXCEPT !.final_results = Get(saved_state, "results", <<>>),
                              !.ia_analyzed_ids = Get(saved_state, "analiced_ids", {})]
        upload(saved_state) ==
            rebuilt(saved_state,
                    IF saved_state.category # "news" THEN NewEngine
                    ELSE IF Truthy(saved_state.engine_state) /\ readable
                    THEN load_state_snapshot(NewEngine, saved_state.engine_state)
                    ELSE previous(saved_state),
                    IF saved_state.category = "vulnerabilities"
                       /\ Truthy(saved_state.engine_state)
                    THEN saved_state.engine_state
                    ELSE NewVuln)
    IN  /\ pc = "idle"
        /\ hist.runs < MaxRuns
        /\ hist.entry # "legacy"
        /\ {"category", "remaining_keywords", "engine_state"} \subseteq DOMAIN ckpt
        /\ ~readable => ckpt.category = "news" /\ Truthy(ckpt.engine_state)
        /\ upload(IF readable THEN ckpt ELSE [ckpt EXCEPT !.engine_state = Unreadable])
        /\ UNCHANGED <<peng, last, seen, lckpt, ref, disk>>

\* main.py, load_and_search_in_category(keywords, "vulnerabilities")
LegacyRun(n) ==
    /\ pc = "idle"
    /\ hist.runs < MaxRuns
    /\ hist.entry \in {"", "legacy"}
    /\ run' = [NoRun EXCEPT !.entry = "legacy", !.cat = "vulnerabilities",
                            !.kws = SubSeq(Keywords, 1, n), !.total = n]
    /\ veng' = NewVuln
    /\ hist' = Started(<<>>, "legacy", TRUE, FALSE)
    /\ pc' = "lloop"
    /\ UNCHANGED <<eng, peng, last, seen, ckpt, lckpt, ref, disk>>

\* main.py, resume_from_recovery("vulnerabilities")
LegacyResume ==
    /\ pc = "idle"
    /\ hist.runs < MaxRuns
    /\ hist.entry = "legacy"
    /\ lckpt # <<>>
    /\ lckpt # Unreadable
    /\ run' = [NoRun EXCEPT !.entry = "legacy", !.cat = "vulnerabilities",
                            !.kws = lckpt.remaining_keywords,
                            !.total = Len(lckpt.remaining_keywords)]
    /\ veng' = [vulnerabilities |-> lckpt.results, analiced_cve_ids |-> lckpt.analiced_ids]
    /\ hist' = Started(<<>>, "legacy", TRUE, FALSE)
    /\ pc' = "lloop"
    /\ UNCHANGED <<eng, peng, last, seen, ckpt, lckpt, ref, disk>>

\* the head of the while loop: the next keyword is popped and searched, or
\* the loop ends and the final state is saved; utils/StateManager.save_state
\* writes into the state file itself, which is left cut short and unreadable
\* when the process is killed during the save
LegacyLoop(killed) ==
    /\ pc = "lloop"
    /\ IF run.kws # <<>>
       THEN /\ ~killed
            /\ run' = [run EXCEPT !.cur = Head(run.kws), !.kws = Tail(run.kws)]
            /\ pc' = "lsearch"
            /\ UNCHANGED <<lckpt, veng, hist>>
       ELSE /\ lckpt' = IF killed THEN Unreadable
                        ELSE legacy_save_state(<<>>, veng.analiced_cve_ids,
                                               veng.vulnerabilities)
            /\ hist' = [hist EXCEPT !.since = IF killed THEN @ ELSE 0]
            /\ run' = NoRun
            /\ veng' = NewVuln
            /\ pc' = "idle"
    /\ UNCHANGED <<eng, peng, last, seen, ckpt, ref, disk>>

\* every how many keywords the command line program saves its state
LegacySaveEvery == 5

\* search(current_keyword) returns: "SAVE_AND_EXIT" or the keyword is done;
\* the process can be killed during the save, when there is one
LegacySearchReturns(result, killed) ==
    LET saves == result = "SAVE_AND_EXIT" \/ (run.processed + 1) % LegacySaveEvery = 0
    IN  /\ pc = "lsearch"
        /\ killed => saves
        /\ IF result = "SAVE_AND_EXIT"
           THEN /\ lckpt' = IF killed THEN Unreadable
                            ELSE legacy_save_state(<<run.cur>> \o run.kws,
                                                   veng.analiced_cve_ids, veng.vulnerabilities)
                /\ hist' = [hist EXCEPT !.calls = @ + 1, !.since = IF killed THEN @ ELSE 0]
                /\ run' = NoRun
                /\ veng' = NewVuln
                /\ pc' = "idle"
           ELSE /\ lckpt' = IF killed THEN Unreadable
                            ELSE IF saves
                            THEN legacy_save_state(run.kws,
                                                   vuln_search(veng, run.cur).analiced_cve_ids,
                                                   vuln_search(veng, run.cur).vulnerabilities)
                            ELSE lckpt
                /\ hist' = [hist EXCEPT !.calls = @ + 1,
                                        !.since = IF saves /\ ~killed THEN 0 ELSE @ + 1]
                /\ veng' = IF killed THEN NewVuln ELSE vuln_search(veng, run.cur)
                /\ run' = IF killed THEN NoRun
                          ELSE [run EXCEPT !.processed = @ + 1, !.cur = ""]
                /\ pc' = IF killed THEN "idle" ELSE "lloop"
        /\ UNCHANGED <<eng, peng, last, seen, ckpt, ref, disk>>

Next ==
    \/ \E cat \in {"news", "vulnerabilities"}, n \in 1..MaxKw : NewRun(cat, n)
    \/ PreKeyword
    \/ \E i \in 0..Len(Articles) : ProviderReturns(i)
    \/ \E failure \in Failures : ProviderFails(failure)
    \/ VulnSearchReturns
    \/ \E failure \in {"http_429", "blocked", "network", "unexpected"} : VulnSearchFails(failure)
    \/ PostKeyword
    \/ Finalize
    \/ Crash
    \/ \E readable \in BOOLEAN : Resume(readable)
    \/ \E n \in 1..MaxLegacyKw : LegacyRun(n)
    \/ LegacyResume
    \/ \E killed \in BOOLEAN : LegacyLoop(killed)
    \/ \E result \in {"None", "SAVE_AND_EXIT"}, killed \in BOOLEAN :
          LegacySearchReturns(result, killed)

Spec == Init /\ [][Next]_vars

(***************************************************************************)
(* filters/FilterIncident.py : the incident filter.  A text is a set of    *)
(* phrases joined by blanks, title and summary together, in lower case.    *)
(***************************************************************************)
\* What the patterns of the filter match in each phrase, tabulated from the
\* program: pos, the positive categories of re_pos and "company" for
\* re_companies; neg, the negative categories of re_neg; rx, the other
\* patterns of classify.  No pattern matches across two of these phrases,
\* so a text matches what its phrases match.
IncidentLexicon ==
    [p \in {"ransomware", "bmw", "plant", "reportedly", "no impact",
             "researchers", "roundup", "dealer portal", "outage", "infotainment",
             "cve-2024-1234", "market", "patch", "data leak", "cloudflare outage",
             "keyless", "remote start", "exploited", "was hacked", "advert",
             "fleet", "token"} |->
       CASE p = "ransomware"         -> [pos |-> {"ransomware"}, neg |-> {}, rx |-> {}]
         [] p = "bmw"                -> [pos |-> {"company"}, neg |-> {}, rx |-> {}]
         [] p = "plant"              -> [pos |-> {}, neg |-> {}, rx |-> {"plant_or_ops"}]
         [] p = "reportedly"         -> [pos |-> {}, neg |-> {"unconfirmed"}, rx |-> {}]
         [] p = "no impact"          -> [pos |-> {}, neg |-> {"denial_noimpact"}, rx |-> {}]
         [] p = "researchers"        -> [pos |-> {}, neg |-> {"hypothetical"}, rx |-> {}]
         [] p = "roundup"            -> [pos |-> {}, neg |-> {"roundup_structure"}, rx |-> {}]
         [] p = "dealer portal"      -> [pos |-> {"portal_abuse", "targets_auto"}, neg |-> {}, rx |-> {"auto_context", "portal"}]
         [] p = "outage"             -> [pos |-> {"disruption"}, neg |-> {}, rx |-> {}]
         [] p = "infotainment"       -> [pos |-> {"targets_auto"}, neg |-> {}, rx |-> {"auto_context"}]
         [] p = "cve-2024-1234"      -> [pos |-> {"vuln_found"}, neg |-> {"routine_vuln"}, rx |-> {}]
         [] p = "market"             -> [pos |-> {}, neg |-> {"unrelated"}, rx |-> {}]
         [] p = "patch"              -> [pos |-> {}, neg |-> {"routine_vuln"}, rx |-> {}]
         [] p = "data leak"          -> [pos |-> {"data_theft"}, neg |-> {}, rx |-> {}]
         [] p = "cloudflare outage"  -> [pos |-> {"disruption"}, neg |-> {"nonauto_outage"}, rx |-> {}]
         [] p = "keyless"            -> [pos |-> {"targets_auto"}, neg |-> {}, rx |-> {"auto_context", "keyless_like"}]
         [] p = "remote start"       -> [pos |-> {"remote_control"}, neg |-> {}, rx |-> {"remote"}]
         [] p = "exploited"          -> [pos |-> {}, neg |-> {}, rx |-> {"exploit_like"}]
         [] p = "was hacked"         -> [pos |-> {"attack_confirmed"}, neg |-> {}, rx |-> {}]
         [] p = "advert"             -> [pos |-> {}, neg |-> {"ad_lure"}, rx |-> {}]
         [] p = "fleet"              -> [pos |-> {}, neg |-> {}, rx |-> {"auto_context"}]
         [] p = "token"              -> [pos |-> {}, neg |-> {}, rx |-> {"portal"}]]

\* a text has at most MaxPhrases phrases
MaxPhrases == 4
Modes == {"strict", "standard", "broad"}
RECURSIVE TextsOf(_)
TextsOf(n) ==
    IF n = 0 THEN {{}}
    ELSE LET more(shorter) ==
               shorter \cup {t \cup {p} : t \in shorter, p \in DOMAIN IncidentLexicon}
         IN  more(TextsOf(n - 1))
Texts == TextsOf(MaxPhrases)

\* IncidentFilter.classify up to the hard rule: the matches, the score with
\* its overrides and synergies, the context and the strong signal
incident_evidence(mode, text) ==
    LET evidence(pos, neg, rx) ==
          LET wpos(b) == CASE b \in {"attack_confirmed", "ransomware"} -> 6
                           [] b \in {"data_theft", "disruption", "portal_abuse",
                                     "remote_control", "vuln_found"} -> 5
                           [] b = "targets_auto" -> 4
                           [] b \in {"insider", "company"} -> 2
                           [] b = "quantifiers" -> 1
              wneg(b) == CASE b = "hypothetical" -> IF mode = "strict" THEN 6 ELSE 3
                           [] b \in {"unconfirmed", "denial_noimpact"} -> 6
                           [] b \in {"routine_vuln", "unrelated"} -> 4
                           [] b \in {"advisory_only", "nonauto_outage", "lifehack_noise",
                                     "roundup_structure", "market_noise"} -> 3
                           [] b = "ad_lure" -> 2
              plus(b)  == IF b \in pos THEN wpos(b) ELSE 0
              minus(b) == IF b \in neg THEN wneg(b) ELSE 0
              keep_min == IF mode = "strict" THEN 7 ELSE IF mode = "standard" THEN 6 ELSE 5
              auto_context == "auto_context" \in rx \/ "company" \in pos
              \* 2) and 3): the weights of the categories that matched
              weighed ==
                  plus("attack_confirmed") + plus("ransomware") + plus("data_theft")
                  + plus("disruption") + plus("targets_auto") + plus("insider")
                  + plus("quantifiers") + plus("portal_abuse") + plus("remote_control")
                  + plus("vuln_found") + plus("company")
                  - minus("hypothetical") - minus("routine_vuln") - minus("unconfirmed")
                  - minus("denial_noimpact") - minus("advisory_only")
                  - minus("lifehack_noise") - minus("roundup_structure")
                  - minus("unrelated") - minus("market_noise")
                  - (IF ~auto_context THEN minus("nonauto_outage") + minus("ad_lure") ELSE 0)
              portal_hit    == "portal_abuse" \in pos \/ "portal" \in rx
              remote_hit    == "remote_control" \in pos \/ "remote" \in rx
              brand_target  == "company" \in pos \/ "targets_auto" \in pos
              exploit_like  == "exploit_like" \in rx
              auto_evidence == brand_target \/ portal_hit \/ remote_hit \/ exploit_like
              hypothetical ==
                  IF "hypothetical" \notin neg THEN 0
                  ELSE IF pos \cap {"attack_confirmed", "ransomware", "data_theft",
                                    "disruption"} # {}
                       THEN wneg("hypothetical")
                  ELSE IF (portal_hit \/ remote_hit \/ "vuln_found" \in pos \/ exploit_like)
                          /\ brand_target
                       THEN wneg("hypothetical") - 2
                  ELSE IF auto_evidence THEN wneg("hypothetical") - 1
                  ELSE 0
              routine_vuln ==
                  IF "routine_vuln" \in neg /\ "vuln_found" \in pos /\ auto_evidence
                  THEN wneg("routine_vuln") ELSE 0
              synergy ==
                  (IF "portal_abuse" \in pos /\ "company" \in pos THEN 1 ELSE 0)
                  + (IF "remote_control" \in pos /\ brand_target THEN 2 ELSE 0)
                  + (IF "vuln_found" \in pos /\ (brand_target \/ "portal_abuse" \in pos)
                     THEN 1 ELSE 0)
                  + (IF "attack_confirmed" \in pos /\ brand_target THEN 1 ELSE 0)
                  + (IF "data_theft" \in pos /\ brand_target THEN 1 ELSE 0)
                  + (IF "targets_auto" \in pos /\ "company" \in pos THEN 1 ELSE 0)
              \* 4) the strong signals
              plant_or_ops == "plant_or_ops" \in rx
              vuln_strong  == /\ pos \cap {"vuln_found", "data_theft"} # {}
                              /\ auto_context \/ brand_target \/ "portal_abuse" \in pos
              keyless_like == "keyless_like" \in rx
              strong ==
                  \/ pos \cap {"attack_confirmed", "ransomware"} # {}
                  \/ "disruption" \in pos /\ auto_context /\ plant_or_ops
                  \/ (portal_hit \/ remote_hit) /\ auto_context
                  \/ vuln_strong
                  \/ keyless_like /\ brand_target
              roundup == IF strong /\ "roundup_structure" \in neg
                         THEN wneg("roundup_structure") ELSE 0
              \* 5) the threshold, relaxed step by step
              Max(x, y) == IF x >= y THEN x ELSE y
              relax(k, on, by) == IF on THEN Max(5, k - by) ELSE k
              keep_min_eff ==
                  relax(relax(relax(relax(keep_min,
                      "data_theft" \in pos /\ "company" \in pos, 2),
                      "ransomware" \in pos /\ "company" \in pos, 2),
                      pos \cap {"remote_control", "portal_abuse"} # {} /\ brand_target, 2),
                      keyless_like /\ brand_target, 1)
          IN  [matches |-> [pos |-> pos, neg |-> neg],
               score |-> weighed + hypothetical + routine_vuln + synergy + roundup,
               auto_context |-> auto_context, brand_target |-> brand_target,
               action |-> keyless_like \/ portal_hit \/ remote_hit,
               strong |-> strong, keep_min_eff |-> keep_min_eff]
    IN  evidence(UNION {IncidentLexicon[p].pos : p \in text},
                 UNION {IncidentLexicon[p].neg : p \in text},
                 UNION {IncidentLexicon[p].rx : p \in text})

\* the decision without the threshold on the score
classify_without_threshold(mode, text) ==
    LET decide(ev) ==
          LET borderline == /\ ev.score >= ev.keep_min_eff - 1
                            /\ ev.auto_context /\ ev.brand_target /\ ev.action
          IN  IF ("unconfirmed" \in ev.matches.neg \/ "denial_noimpact" \in ev.matches.neg)
                 /\ ~ev.strong
              THEN [keep |-> FALSE, score |-> ev.score, category |-> "",
                    matches |-> ev.matches, strong |-> ev.strong]
              ELSE [keep |-> (ev.strong \/ borderline) /\ ev.auto_context,
                    score |-> ev.score, category |-> "fine",
                    matches |-> ev.matches, strong |-> ev.strong]
    IN  decide(incident_evidence(mode, text))

\* the decision without the hard rule and without the strong signal
classify_without_strong(mode, text) ==
    LET decide(ev) ==
          [keep |-> ev.score >= ev.keep_min_eff /\ ev.auto_context,
           score |-> ev.score, category |-> "fine",
           matches |-> ev.matches, strong |-> ev.strong]
    IN  decide(incident_evidence(mode, text))

\* IncidentFilter.classify, from the hard rule on: the result with its keep,
\* score, matches, and category ("" is None, "fine" one of the fine
\* categories); strong is the strong signal as the hard rule saw it
classify(mode, text) ==
    LET decide(ev) ==
          LET borderline == /\ ev.score >= ev.keep_min_eff - 1
                            /\ ev.auto_context /\ ev.brand_target /\ ev.action
          IN  IF ("unconfirmed" \in ev.matches.neg \/ "denial_noimpact" \in ev.matches.neg)
                 /\ ~ev.strong
              THEN [keep |-> FALSE, score |-> ev.score, category |-> "",
                    matches |-> ev.matches, strong |-> ev.strong]
              ELSE [keep |-> /\ ev.score >= ev.keep_min_eff
                             /\ (ev.strong \/ borderline) /\ ev.auto_context,
                    score |-> ev.score, category |-> "fine",
                    matches |-> ev.matches, strong |-> ev.strong]
    IN  decide(incident_evidence(mode, text))

\* IncidentFilter(mode).classify(title, summary) is called once
Classify(mode, text) ==
    /\ last.op = "init"
    /\ last' = [op |-> "classify", n |-> 1, mode |-> mode, text |-> text,
                result |-> classify(mode, text)]
    /\ UNCHANGED <<eng, peng, seen, appvars, disk>>

NextIncident == \E mode \in Modes, text \in Texts : Classify(mode, text)

SpecIncident == Init /\ [][NextIncident]_vars

(***************************************************************************)
(* Properties of the dedup engine, checked under SpecDedup                 *)
(***************************************************************************)
\* the record of raw_items stored under mid
RecordOf(raw, mid) == raw[PosOf(raw, mid)]

\* C6: when an observation is ingested whose normalised URL is the one of an
\* observation ingested before it (whatever additions, snapshot reloads and
\* canonical re-indexings came in between), the lookup returns a record
\* that is in the store, the observation is merged into it, and the store
\* has as many records as before.
C6_SameUrlMerges ==
    (last.op = "add" /\ last.known) =>
        /\ last.mid # ""
        /\ PosOf(last.eng.raw_items, last.mid) > 0
        /\ last.url \in DOMAIN last.eng.idx_by_url
        /\ last.mid = last.eng.idx_by_url[last.url]
        /\ Len(eng.raw_items) = Len(last.eng.raw_items)
        /\ {r.ID : r \in Range(eng.raw_items)} = {r.ID : r \in Range(last.eng.raw_items)}
        /\ NewItems[last.art].Source[1] \in Range(RecordOf(eng.raw_items, last.mid).Source)

\* C6 witness: article 3, whose URL differs from the URL of article 1 only by
\* a tracking parameter, is ingested after a snapshot reload into a store
\* that holds the record of article 1, under another title.
C6_Witness ==
    /\ last.op = "add" /\ last.art = 3 /\ last.known
    /\ last.eng.idx_by_url_sig = <<>>
    /\ RecordOf(eng.raw_items, last.mid).URL = Articles[1][5]
    /\ RecordOf(eng.raw_items, last.mid).Title = Articles[1][2]
    /\ Len(RecordOf(eng.raw_items, last.mid).Source) = 2

\* the Sources of the record `new' hold all the Sources of `old', in the
\* same order, and at least one entry
SourcesKept(old, new) ==
    /\ Len(new.Source) >= Len(old.Source)
    /\ Len(new.Source) >= 1
    /\ SubSeq(new.Source, 1, Len(old.Source)) = old.Source

\* C7: no operation of the news engine or of the paper engine removes a
\* source from a stored record: every record of the store before the
\* operation is in the store after it (a paper possibly under its DOI
\* instead of its title) with all its former Sources and at least
\* max(former number of Sources, 1) of them.
C7_SourcesOnlyGrow ==
    /\ \A old \in Range(last.eng.raw_items) :
          /\ PosOf(eng.raw_items, old.ID) > 0
          /\ SourcesKept(old, RecordOf(eng.raw_items, old.ID))
    /\ \A key \in DOMAIN last.peng :
          \E key2 \in DOMAIN peng :
             /\ key2 = key \/ (key2 \notin DOMAIN last.peng /\ key \notin DOMAIN peng)
             /\ SourcesKept(last.peng[key], peng[key2])

\* C7 witness: an observation of another provider has been merged into a
\* stored record, which has one source more than before.
C7_Witness ==
    /\ last.op = "add"
    /\ PosOf(last.eng.raw_items, last.mid) > 0
    /\ Len(RecordOf(eng.raw_items, last.mid).Source)
         = Len(RecordOf(last.eng.raw_items, last.mid).Source) + 1
    /\ Len(RecordOf(last.eng.raw_items, last.mid).Source) = 2

\* C10: a fresh engine loaded with the snapshot of an engine has the record
\* map, the per-provider id sets and every dedup index of that engine.
C10_SnapshotRoundTrip ==
    last.op = "load" =>
        /\ eng.raw_items = last.eng.raw_items
        /\ \A f \in {"gnews_ids", "newsapi_ids", "serpapi_ids", "gdelt_ids", "newsdata_ids"} :
              eng[f] = last.eng[f]
        /\ \A f \in {"idx_by_url", "idx_by_url_sig", "idx_by_title_sha", "idx_by_simhash_band",
                      "idx_by_title_prefix", "idx_by_bow_sig", "idx_by_title"} :
              eng[f] = last.eng[f]


(***************************************************************************)
(* Properties of a run, checked under Spec                                 *)
(***************************************************************************)
\* the state file the run writes
Persisted == IF hist.entry = "legacy" THEN lckpt ELSE ckpt

\* the file holds a queue of remaining keywords whose first element is kw
HeadIs(file, kw) ==
    /\ "remaining_keywords" \in DOMAIN file
    /\ file.remaining_keywords # <<>>
    /\ Head(file.remaining_keywords) = kw

\* C1: while search(k) is in flight the persisted remaining_keywords has k
\* as its first element, and when the run dies in the middle of k the file
\* it leaves has k as the first remaining keyword.
C1_InFlightKeywordIsHead ==
    /\ pc \in {"search", "lsearch"} => HeadIs(Persisted, run.cur)
    /\ hist.crashedIn # "" => HeadIs(Persisted, hist.crashedIn)

\* the last write of the run marked it completed
Completed ==
    /\ pc = "idle"
    /\ hist.writes # <<>>
    /\ hist.writes[Len(hist.writes)] = [status |-> "COMPLETED", empty |-> TRUE, seed |-> FALSE]

\* C2: a news run that was paused and resumed without losing an
\* observation ends with the records (merge decisions and Sources
\* included) and the kept set of the engine that ingested the same
\* observations and was never saved and restored.
C2_ResumedRunEqualsUnpausedRun ==
    (Completed /\ hist.resumed /\ ~hist.lost /\ ckpt.category = "news") =>
        /\ ckpt.engine_state.raw_items = ref.raw_items
        /\ ckpt.results = ref.final_results

\* C3: after a provider's request failed with a rate-limit, blocked,
\* network or malformed-query failure, the run is still inside search for
\* the same keyword, at the next provider or at its return.
C3_ProviderFailureSkipsProvider ==
    hist.out.failure \in ClassifiedFailures =>
        /\ hist.out.fate # "escaped"
        /\ pc \in {"search", "returned"}
        /\ run.prov = hist.out.prov + 1

\* C4: after a classified failure left search(k) the checkpoint has status
\* ERROR, k is the first remaining keyword, the last_error entry holds the
\* failure kind and its message, and engine_state is the snapshot of the
\* engine at the failure.
C4_ErrorCheckpoint ==
    hist.err # NoErr =>
        /\ ckpt.status = "ERROR"
        /\ HeadIs(ckpt, hist.err.kw)
        /\ ckpt.engine_state = hist.err.snap
        /\ ckpt.last_error # None
        /\ hist.err.failure \in Range(ckpt.last_error)
        /\ hist.err.message \in Range(ckpt.last_error)

\* C5: a failure that is not of a classified kind ends the run, whether a
\* provider's request raised it or the restore of the snapshot.
C5_UnexpectedFailureEndsRun ==
    /\ hist.out.failure = "unexpected" => hist.out.fate = "escaped" /\ pc = "idle"
    /\ hist.restoreFailed => pc = "idle"

\* the status of a write is one of the three, RUNNING unless it is the
\* last write, and COMPLETED only with no remaining keyword
StatusOk(w, i) ==
    /\ w[i].status \in {"RUNNING", "ERROR", "COMPLETED"}
    /\ i < Len(w) => w[i].status = "RUNNING"
    /\ w[i].status = "COMPLETED" => w[i].empty

\* C8 as stated: every write of a run but its last has status RUNNING, the
\* last one RUNNING, ERROR or COMPLETED, COMPLETED only when no keyword
\* remains.
C8_StatusRunningUntilLastWrite ==
    \A i \in DOMAIN hist.writes : StatusOk(hist.writes, i)

\* C8 amended: the same of every write but the seed copy of the uploaded
\* checkpoint, which is the first write of a resumed run and of no other.
C8_StatusRunningAfterSeed ==
    \A i \in DOMAIN hist.writes :
        /\ ~hist.writes[i].seed => StatusOk(hist.writes, i)
        /\ hist.writes[i].seed => i = 1 /\ hist.entry = "resume"

\* C8 witness: a run resumed from a checkpoint in status ERROR has seeded
\* the file, written RUNNING and the keyword checkpoints, and completed.
C8_Witness ==
    /\ Completed
    /\ Len(hist.writes) >= 5
    /\ hist.writes[1] = [status |-> "ERROR", empty |-> FALSE, seed |-> TRUE]
    /\ hist.writes[2].status = "RUNNING"

\* C9: a run resumed from a checkpoint with no remaining keyword has made
\* no provider call and leaves the checkpoint in status COMPLETED.
C9_EmptyResumeCompletes ==
    hist.emptyResume => hist.calls = 0 /\ ckpt.status = "COMPLETED"

(***************************************************************************)
(* Properties of the filter pass, checked under SpecFilter                 *)
(***************************************************************************)
\* the gates the pass called for the item i, in the order of the calls
GatesOf(calls, i) == SelectSeq(calls, LAMBDA c : c[1] = i)

\* C11: the filter pass calls the gates of an item in the order relevance,
\* incident, classification: the incident filter is called for an item only
\* right after its relevance score, and only when the score is not below
\* the red-line cutoff; the classifier is called only right after the
\* incident filter, once for a level, and only when the incident filter kept
\* the item.
C11_GatesInOrder ==
    last.op = "filter" =>
        \A i \in DOMAIN last.verdict :
            LET g == GatesOf(last.calls, i)
            IN  /\ \A p \in DOMAIN g :
                      /\ g[p][2] = IF p >= 3 THEN "classification"
                                   ELSE (<<"relevance", "incident">>)[p]
                      /\ p = 2 => last.verdict[i].score >= cutoff_red
                      /\ p >= 3 => last.verdict[i].keep
                /\ Len(g) <= 2 + Cardinality(DOMAIN last.niveles)
                /\ last.verdict[i].score < cutoff_red => Len(g) <= 1
                /\ ~last.verdict[i].keep => Len(g) <= 2

\* C11 witness: a pass with the AI filter on in which the first item scored
\* below the cutoff and only its relevance was asked, the second item
\* reached the classifier.
C11_Witness ==
    /\ last.op = "filter" /\ last.apply_filter_ia
    /\ Len(last.eng.raw_items) = 2
    /\ last.verdict[1].score < cutoff_red
    /\ last.calls = << <<1, "relevance">>, <<2, "relevance">>, <<2, "incident">>,
                       <<2, "classification">> >>

\* is the record r of the store exported by the pass
Exported(e, r) == \E k \in DOMAIN e.final_results : e.final_results[k] = r

\* C12: a filter pass removes no record from the store, and after it every
\* record of the store that is not in the exported set carries
\* Decision = drop, the gate that dropped it and the reasons of the drop.
C12_DroppedStayForAudit ==
    last.op = "filter" =>
        /\ Len(eng.raw_items) = Len(last.eng.raw_items)
        /\ \A i \in DOMAIN eng.raw_items :
              LET r == eng.raw_items[i]
              IN  /\ r.ID = last.eng.raw_items[i].ID
                  /\ ~Exported(eng, r) =>
                        /\ "Decision" \in DOMAIN r
                        /\ r.Decision = "drop"
                        /\ r.DecisionGate \in {"automotive_filter", "incident_filter", "ai_zeroshot"}
                        /\ r.DecisionReasons # <<>>

SummaryKept(before, after, incoming) ==
    LET low(text) == MapLower(Strip(text))
    IN  \/ after = before
        \/ /\ after = incoming
           /\ PlaceholderNew(low(before))
           /\ ~PlaceholderNew(low(incoming))

\* where the paper engine holds, after an ingestion of the paper i, the
\* record it held under `key' before
PaperKeyAfter(key, i) ==
    IF key \in DOMAIN peng THEN key ELSE PaperKeys[i].norm_doi

\* C14: a merge replaces the Summary of the existing record only when that
\* Summary is empty or a placeholder and the incoming Summary is non-empty
\* and not a placeholder; in every other case the Summary is unchanged
C14_SummaryOnlyImproves ==
    /\ (last.op = "add" /\ last.mid # "") =>
          \A pos \in 1..Len(last.eng.raw_items) :
             SummaryKept(last.eng.raw_items[pos].Summary, eng.raw_items[pos].Summary,
                         NewItems[last.art].Summary)
    /\ last.op = "paper" =>
          \A key \in DOMAIN last.peng :
             SummaryKept(last.peng[key].Summary, peng[PaperKeyAfter(key, last.art)].Summary,
                         Papers[last.art].Summary)

\* a merge of the news engine has replaced a Summary that was a placeholder
\* text, not the empty one
C14_Witness ==
    /\ last.op = "add" /\ last.mid # ""
    /\ \E pos \in 1..Len(last.eng.raw_items) :
          /\ last.eng.raw_items[pos].ID = last.mid
          /\ last.eng.raw_items[pos].Summary # eng.raw_items[pos].Summary
          /\ last.eng.raw_items[pos].Summary # ""

\* C15: an ingestion, a merge or a re-indexing leaves every stored record
\* under the key it was stored under: the key of a record never changes
C15_KeyStable ==
    /\ last.op \in {"add", "reindex"} =>
          \A pos \in 1..Len(last.eng.raw_items) :
             eng.raw_items[pos].ID = last.eng.raw_items[pos].ID
    /\ last.op = "paper" => \A key \in DOMAIN last.peng : key \in DOMAIN peng

(***************************************************************************)
(* Properties of the state manager, checked under SpecState                *)
(***************************************************************************)
\* the calls that write a checkpoint of the application
WritingCalls == {"upload", "init_state", "save_state", "patch_state", "mark_error",
                 "mark_completed"}

\* C16: a write replaces the checkpoint file in one step: when the process
\* is killed at any point of a write, the file is the whole checkpoint it
\* was before the write (or still does not exist) or the whole new one
C16_WriteIsAtomic ==
    (disk.op.crash # "none" /\ disk.op.path # "") =>
        IF disk.op.path \in DOMAIN disk.files
        THEN \/ disk.files[disk.op.path] = [ok |-> TRUE, json |-> disk.op.data]
             \/ /\ disk.op.path \in DOMAIN disk.op.files
                /\ disk.files[disk.op.path] = disk.op.files[disk.op.path]
        ELSE disk.op.path \notin DOMAIN disk.op.files

\* a file that does not parse or lacks a key a checkpoint must have
CorruptCheckpoint(file) ==
    \/ ~file.ok
    \/ ~({"category", "remaining_keywords", "engine_state"} \subseteq DOMAIN file.json.at)

\* C17: a checkpoint file that does not parse or lacks its required fields
\* is treated as no checkpoint: loading it yields no state, an upload of it
\* binds and writes nothing, and no call rewrites a file that does not parse
\* into one that does
C17_CorruptIsNoCheckpoint ==
    /\ (/\ disk.op.name = "load_state"
        /\ disk.op.path \in DOMAIN disk.files
        /\ CorruptCheckpoint(disk.files[disk.op.path]))
         => \/ disk.loaded = None
            \/ "raised" \in DOMAIN disk.loaded
    /\ (disk.op.name = "upload" /\ CorruptCheckpoint([ok |-> disk.op.arg = "seed", json |-> disk.op.data]))
         => /\ disk.op.arg = "rejected"
            /\ disk.files = disk.op.files
            /\ disk.bound = disk.op.bound
    /\ (/\ disk.op.name \in {"patch_state", "mark_error", "mark_completed"}
        /\ disk.op.path \in DOMAIN disk.op.files
        /\ ~disk.op.files[disk.op.path].ok)
         => disk.files[disk.op.path] = disk.op.files[disk.op.path]

\* the path of the file bound to the category
BoundPath(bound, category) ==
    "state/" \o MapLower(category) \o "/" \o bound[MapLower(category)] \o ".json"

\* C18: each category has one bound checkpoint file at most, whatever the
\* case of its name, and every write for a category goes to the file bound
\* to it: the one bound before the call when there was one, and no other
\* file changes
C18_OneBoundFile ==
    /\ \A c \in DOMAIN disk.bound : c = MapLower(c)
    /\ (disk.op.name \in WritingCalls /\ disk.op.crash = "none" /\ disk.op.arg # "rejected") =>
          /\ MapLower(disk.op.category) \in DOMAIN disk.bound
          /\ disk.op.path = BoundPath(disk.bound, disk.op.category)
          /\ (disk.op.name # "upload" /\ MapLower(disk.op.category) \in DOMAIN disk.op.bound)
                => disk.op.path = BoundPath(disk.op.bound, disk.op.category)
          /\ disk.op.path \in DOMAIN disk.files
          /\ \A f \in (DOMAIN disk.files) \cup (DOMAIN disk.op.files) :
                f # disk.op.path => /\ f \in DOMAIN disk.files
                                    /\ f \in DOMAIN disk.op.files
                                    /\ disk.files[f] = disk.op.files[f]

\* a call wrote for a category that another call had bound under a name in
\* another case, and into the file that was bound
C18_Witness ==
    /\ disk.op.name \in {"patch_state", "mark_error", "mark_completed", "save_state"}
    /\ disk.op.crash = "none"
    /\ disk.op.category = "News"
    /\ MapLower(disk.op.category) \in DOMAIN disk.op.bound
    /\ disk.op.bound["news"] = "mi-estado"
    /\ disk.op.path \in DOMAIN disk.op.files
    /\ disk.files[disk.op.path] # disk.op.files[disk.op.path]

\* C19: a checkpoint written, then loaded, then saved again with what was
\* loaded is the same text as before, apart from the value of last_saved_at:
\* the same keys in the same order with the same values
C19_RoundTrip ==
    (disk.op.name = "save_state" /\ disk.op.arg \in {"known", "all"}) =>
        LET before == disk.op.files[disk.op.path].json
            after  == disk.files[disk.op.path].json
        IN  /\ after.order = before.order
            /\ \A k \in (DOMAIN before.at) \ {"last_saved_at"} : after.at[k] = before.at[k]

(***************************************************************************)
(* Property of the periodic checkpoint, checked under Spec                 *)
(***************************************************************************)
\* C20: in the keyword loop a checkpoint is written after every 5th keyword
\* at the latest, so that wherever the process is killed fewer than five
\* keywords are finished since the last checkpoint that was persisted
C20_FewKeywordsSinceCheckpoint ==
    hist.since <= LegacySaveEvery - 1

(***************************************************************************)
(* Properties of the merge and of the lookup, checked under SpecDedup      *)
(***************************************************************************)
\* the engines add_or_update_result can leave when the article i arrives
AfterArticle(e, i) ==
    {add_or_update_result(e, NewItems[i], mid) : mid \in match(e, KeysOf[NewItems[i]])}

\* C21: the Sources, as a set, and the Summary of a canonical record do not
\* depend on the order in which the observations merged into it arrived:
\* two observations that merge into one record give the same Sources and
\* the same Summary when they arrive the other way round
C21_MergeOrderInsensitive ==
    /\ (last.op = "add" /\ last.n = 2 /\ Len(eng.raw_items) = 1) =>
          \A i \in DOMAIN Articles :
             last.eng \in AfterArticle(NewEngine, i) =>
                \A first \in AfterArticle(NewEngine, last.art) :
                   \A other \in AfterArticle(first, i) :
                      Len(other.raw_items) = 1 =>
                         /\ Range(other.raw_items[1].Source) = Range(eng.raw_items[1].Source)
                         /\ other.raw_items[1].Summary = eng.raw_items[1].Summary
    /\ (last.op = "paper" /\ last.n = 2 /\ Cardinality(DOMAIN peng) = 1) =>
          \A i \in DOMAIN Papers :
             last.peng = paper_add_or_update_result(<<>>, i) =>
                LET other == paper_add_or_update_result(
                                 paper_add_or_update_result(<<>>, last.art), i)
                IN  Cardinality(DOMAIN other) = 1 =>
                       \A k \in DOMAIN peng, ko \in DOMAIN other :
                          /\ Range(other[ko].Source) = Range(peng[k].Source)
                          /\ other[ko].Summary = peng[k].Summary

\* C22: an observation without any usable matching signal (no normalized
\* DOI or URL, no normalized title) is stored as a record of its own: the
\* store grows by one record and every record it held is left as it was
C22_SignalLessStoredApart ==
    (/\ last.op = "paper"
     /\ PaperKeys[last.art].norm_doi = ""
     /\ PaperKeys[last.art].norm_title = "") =>
        /\ Cardinality(DOMAIN peng) = Cardinality(DOMAIN last.peng) + 1
        /\ \A k \in DOMAIN last.peng : k \in DOMAIN peng /\ peng[k] = last.peng[k]

\* the title short is the title long cut at a word boundary
TruncationOf(short, long) ==
    LET cut(ws, wl) == Len(ws) > 0 /\ Len(ws) < Len(wl) /\ SubSeq(wl, 1, Len(ws)) = ws
    IN  cut(Words(normalize_title(short)), Words(normalize_title(long)))

\* C23: an observation whose title is a stored record's title cut at a word
\* boundary, or the full version of a stored cut title, with the two dates
\* inside the day window or one of them missing, is merged into a stored
\* record instead of becoming a record of its own
C23_TruncatedTitleMerges ==
    (/\ last.op = "add"
     /\ \E ex \in Range(last.eng.raw_items) :
           /\ \/ TruncationOf(NewItems[last.art].Title, ex.Title)
              \/ TruncationOf(ex.Title, NewItems[last.art].Title)
           /\ dates_close(KeysOf[NewItems[last.art]].new_d, DayOf[ex.Date], cross_days)) =>
        /\ last.mid # ""
        /\ Len(eng.raw_items) = Len(last.eng.raw_items)

(***************************************************************************)
(* Properties of the incident filter, checked under SpecIncident           *)
(***************************************************************************)
\* C24: a text that matches negative categories and no positive category
\* (no organisation name either) is not kept, in every mode
C24_OnlyNegativeIsDropped ==
    (/\ last.op = "classify"
     /\ last.result.matches.neg # {}
     /\ last.result.matches.pos = {}) =>
        ~last.result.keep

\* C24 witness: a text without a positive category was classified that
\* matches a negative category and still carries the strong signal (a
\* portal pattern in an automotive context), so that the hard rule did not
\* reject it, and it is not kept
C24_Witness ==
    /\ last.op = "classify"
    /\ last.result.matches.neg # {}
    /\ last.result.matches.pos = {}
    /\ last.result.strong
    /\ last.result.category # ""
    /\ ~last.result.keep

\* C25: when "unconfirmed" or "denial_noimpact" matched and the strong
\* signal is not set, the text is not kept, whatever its score
C25_UnconfirmedNeedsStrong ==
    (/\ last.op = "classify"
     /\ last.result.matches.neg \cap {"unconfirmed", "denial_noimpact"} # {}
     /\ ~last.result.strong) =>
        ~last.result.keep

\* C25 witness: a text with "unconfirmed" and without the strong signal was
\* rejected in the mode "broad" although its score reaches the threshold
\* of that mode and an automotive organisation is named
C25_Witness ==
    /\ last.op = "classify"
    /\ last.mode = "broad"
    /\ "unconfirmed" \in last.result.matches.neg
    /\ "company" \in last.result.matches.pos
    /\ ~last.result.strong
    /\ last.result.score >= 5
    /\ ~last.result.keep

\* the label the pass gave the record r at the level, "" when it gave none
LabelAt(r, level_id) ==
    IF level_id = "L1" THEN (IF "Label_L1" \in DOMAIN r THEN r.Label_L1 ELSE "")
    ELSE (IF "Label_L2" \in DOMAIN r THEN r.Label_L2 ELSE "")

\* did the pass ask the classifier about the item i at the level
Classified(i, level_id) ==
    Len(GatesOf(last.calls, i)) >= 2 + (IF level_id = "L1" THEN 1 ELSE 2)

\* C26: after a filter pass, a record the pass labelled at some level with
\* one of the level's bad labels or the level's abstain label was dropped at the
\* classification gate and is not exported, whatever the ensemble reported
\* as accepted
C26_BadLabelIsDropped ==
    last.op = "filter" =>
        \A i \in DOMAIN eng.raw_items : \A level_id \in DOMAIN last.niveles :
            LET dropped(r, config) ==
                    (/\ Classified(i, level_id)
                     /\ LabelAt(r, level_id) \in config.bad_labels \cup {config.abstain_label}) =>
                        /\ r.Decision = "drop"
                        /\ r.DecisionGate = "ai_zeroshot"
                        /\ ~Exported(eng, r)
            IN  dropped(eng.raw_items[i], last.niveles[level_id])

\* C26 witness: a pass over two levels in which a record was accepted at the
\* first level with a good label, and at the second level the ensemble
\* reported as accepted the label that is the level's abstain label; the
\* record was dropped at the classification gate
C26_Witness ==
    /\ last.op = "filter" /\ last.niveles = TwoLevels
    /\ \E i \in DOMAIN eng.raw_items :
          /\ last.verdict[i].ensemble.L2.accepted
          /\ LabelAt(eng.raw_items[i], "L1") = "incident"
          /\ LabelAt(eng.raw_items[i], "L2") = TwoLevels.L2.abstain_label
          /\ eng.raw_items[i].Accepted_L2
          /\ eng.raw_items[i].DecisionGate = "ai_zeroshot"

(***************************************************************************)
(* Properties of the runs over the news engine, checked under Spec         *)
(***************************************************************************)
\* C27: no rate-limit, blocked or network failure of a provider leaves
\* search, and a run over the news engine neither takes the error branch of
\* the keyword loop nor writes the status ERROR
C27_SearchKeepsProviderFailures ==
    /\ hist.out.failure \in {"http_429", "quota_in_body", "blocked", "network"} =>
          hist.out.fate # "escaped"
    /\ (hist.entry \in {"new", "resume"} /\ Get(ckpt, "category", "") = "news") =>
          /\ hist.err = NoErr
          /\ \A w \in Range(hist.writes) : w.status # "ERROR"

\* C28: in every checkpoint a new run or a resumed run of the application
\* has written, the keywords processed and the keywords remaining add up to
\* the total: progress.processed_keywords + len(remaining_keywords) =
\* progress.total_keywords
C28_ProgressAddsUp ==
    hist.entry \in {"new", "resume"} =>
        /\ {"progress", "remaining_keywords"} \subseteq DOMAIN ckpt
        /\ ckpt.progress.processed_keywords + Len(ckpt.remaining_keywords)
              = ckpt.progress.total_keywords

\* C28 witness: a resumed run, started from a checkpoint with one of two
\* keywords processed, has written the checkpoint after its keyword: the
\* progress continues the count of the run before it
C28_Witness ==
    /\ hist.entry = "resume"
    /\ Len(run.kws) = 1 /\ run.total = 2
    /\ ckpt.progress = Progress(2, 2)
    /\ ckpt.remaining_keywords = <<>>
    /\ ckpt.status = "RUNNING"


\* the items the passes of the filter engine have counted under an outcome
Outcomes(stats) ==
    stats.filtered_by_year + stats.filtered_by_heuristic_auto
    + stats.filtered_by_heuristic_inci + stats.already_processed_ia
    + stats.filtered_by_ai + stats.saved_items

\* C29: after one filter pass or more over news items, each with the AI
\* filter off or with levels defined, total_items is the sum of the six
\* outcome counters, and it is the number of items the passes went over:
\* every item of every pass is counted under exactly one outcome
C29_CountersAddUp ==
    (last.op = "filter" /\ last.levels_ok) =>
        /\ last.filter_engine.total_items = Outcomes(last.filter_engine)
        /\ last.filter_engine.total_items = last.passes * Len(eng.raw_items)

\* C29 witness: after the second pass over two items, with levels defined,
\* an item analysed by the first pass was counted as already processed, and
\* items were counted as saved and as rejected by the classifier
C29_Witness ==
    /\ last.op = "filter" /\ last.levels_ok /\ last.passes = 2
    /\ last.filter_engine.total_items = 4
    /\ last.filter_engine.already_processed_ia >= 1
    /\ last.filter_engine.saved_items >= 1
    /\ last.filter_engine.filtered_by_ai >= 1


(***************************************************************************)
(* The indexes and the store, checked under SpecDedup                      *)
(***************************************************************************)
\* the record ids an index of lists refers to
ListedIn(idx) == UNION {Range(idx[key]) : key \in DOMAIN idx}

\* the record ids the seven indexes of the engine refer to
Referenced(e) ==
    Range(e.idx_by_url) \cup Range(e.idx_by_url_sig) \cup Range(e.idx_by_title)
    \cup Range(e.idx_by_title_sha) \cup ListedIn(e.idx_by_simhash_band)
    \cup ListedIn(e.idx_by_title_prefix) \cup ListedIn(e.idx_by_bow_sig)

\* C30: after any ingestions and snapshot reloads (and re-indexings), every
\* record id an index refers to (exact URL, URL signature, composite key,
\* title hash, similarity band, prefix key, bag of tokens) is the key of a
\* record of the store, and the store holds under every key one record,
\* whose ID is that key, never empty
C30_IndexesReferToStoredRecords ==
    /\ \A id \in Referenced(eng) : PosOf(eng.raw_items, id) # 0
    /\ \A i, j \in DOMAIN eng.raw_items :
          /\ eng.raw_items[i].ID # ""
          /\ eng.raw_items[i].ID = eng.raw_items[j].ID => i = j
    /\ last.op = "add" => PosOf(eng.raw_items, last.mid) # 0 \/ last.mid = ""

\* C30 witness: an ingestion into an engine that was restored from a
\* snapshot stored a second record, and each of the seven indexes refers to
\* a record
C30_Witness ==
    /\ last.op = "add" /\ last.n >= 3
    /\ last.eng.raw_items # <<>> /\ last.eng.idx_by_title_sha = <<>>
    /\ Len(eng.raw_items) = Len(last.eng.raw_items) + 1
    /\ Range(eng.idx_by_url) # {} /\ Range(eng.idx_by_url_sig) # {}
    /\ Range(eng.idx_by_title) # {} /\ Range(eng.idx_by_title_sha) # {}
    /\ ListedIn(eng.idx_by_simhash_band) # {}
    /\ ListedIn(eng.idx_by_title_prefix) # {}
    /\ ListedIn(eng.idx_by_bow_sig) # {}

====
